---- MODULE Spec2Model ----
(***************************************************************************)
(* Model of the Solax X1 RS485 client (package solaxx1rs485).              *)
(*                                                                         *)
(*   - the byte codec, the checksum and the packet framer of protocol.go   *)
(*     are operators, computed as the Go code computes them;               *)
(*   - SpecCodec drives the framer: a packet is encoded, the frame may be  *)
(*     damaged on the wire, and the frame is parsed;                       *)
(*   - Spec drives the client of client.go: one action per exported        *)
(*     method, the transport's answers drawn from small sets;              *)
(*   - SpecUnit applies the pure functions (checksum, the request builders,*)
(*     the response parsers, NormalizeInfoResponse) to bounded inputs.     *)
(*   - SpecBytes applies the byte codec of bytes.go to every 16-bit value; *)
(*   - SpecCli runs the info command of cmd/main.go once.                  *)
(*                                                                         *)
(* Go values: a byte is a number 0..255, a []byte a sequence, a pointer    *)
(* the empty sequence (nil) or a one-element sequence, an error a record.  *)
(***************************************************************************)
EXTENDS Integers, Sequences, FiniteSets, TLC

VARIABLES
    \* ---- SpecCodec: the framer under test
    cPacket,      \* the Packet handed to Bytes()
    cEncoded,     \* what Bytes() returned for cPacket
    cBody,        \* the frame on the wire
    cParsed,      \* what ParsePacket returned for cBody
    cStage,       \* "init" | "encoded" | "parsed"
    cTampered,    \* how many times the frame was damaged on the wire
    \* ---- Spec: the client
    inverter,     \* the caller's *Inverter: Nil or <<[Serial, Address, shared]>>
    LastResponse, \* Client.LastResponse
    pending,      \* bytes waiting unread in the connection's input buffer
    op,           \* the method that ran last, with its arguments
    ret,          \* what it returned
    calls,        \* what it did on the transport, in order
    \* ---- SpecUnit: one pure function applied to one input
    uCase,        \* the function and its arguments
    uResult,      \* what it returned
    uStage,       \* "init" | "done"
    \* ---- SpecCli: one run of the command line program
    flags,        \* the flags the program was started with
    exit          \* how the process ended, once it has

codecVars == <<cPacket, cEncoded, cBody, cParsed, cStage, cTampered>>
clientVars == <<inverter, LastResponse, pending, op, ret, calls>>
unitVars == <<uCase, uResult, uStage>>
cliVars == <<flags, exit>>
vars == <<cPacket, cEncoded, cBody, cParsed, cStage, cTampered,
          inverter, LastResponse, pending, op, ret, calls,
          uCase, uResult, uStage, flags, exit>>

(***************************************************************************)
(* Go values                                                               *)
(***************************************************************************)
Nil == <<>>
Ptr(x) == <<x>>
Deref(p) == p[1]

Err(is, why) == [is |-> is, why |-> why]
NoErr == Err("nil", "")

ErrMaxDataSizeExceeded == Err("ErrMaxDataSizeExceeded", "")
ErrIncompleteWrite == Err("ErrIncompleteWrite", "")
ErrNoInverter == Err("ErrNoInverter", "")
\* fmt.Errorf("%w: ...", ErrInvalidBody, ...): the sentinel and the message
ErrInvalidBody(why) == Err("ErrInvalidBody", why)
ErrUnexpectedControlCode == Err("ErrUnexpectedControlCode", "")
ErrUnexpectedFunctionCode == Err("ErrUnexpectedFunctionCode", "")
ErrNOACK == Err("", "got NOACK")
ErrNilInverter == Err("", "Inverter must not be nil")

ControlCodeRegister == 16
ControlCodeRead == 17
StatusACK == 6
StatusNOACK == 21
HeaderMagic == 43605

(***************************************************************************)
(* bytes.go                                                                *)
(***************************************************************************)
bytesFromUint16LE(in) == <<in % 256, in \div 256>>

bytesFromUint16(in) == <<in \div 256, in % 256>>

\* uint16FromBytes reading the low byte first
uint16FromBytesLE(in) == (in[2] * 256 + in[1]) % 65536

uint16FromBytes(in) == (in[1] * 256 + in[2]) % 65536

\* a uint32 is kept as its two 16-bit halves (the value is hi * 65536 + lo):
\* numbers from 2^31 on are beyond the model checker's integers
uint32FromBytes(in) ==
    [hi |-> (in[1] * 256 + in[2]) % 65536, lo |-> (in[3] * 256 + in[4]) % 65536]

(***************************************************************************)
(* protocol.go: checksum, Packet.Bytes, ParsePacket                        *)
(***************************************************************************)
\* for _, b := range body { cs += uint16(b) }: the bytes lo..hi are added to
\* the 16-bit accumulator cs one by one, from the left, each addition wrapping.
\* The range is walked in halves, and the accumulator is made a value (the
\* test on left, which always holds) before the walk goes on, only to keep
\* the evaluation shallow: the additions and their order are the loop's.
RECURSIVE checksumLoop(_, _, _, _)
checksumLoop(body, lo, hi, cs) ==
    IF lo > hi THEN cs
    ELSE IF lo = hi THEN (cs + body[lo]) % 65536
    ELSE LET mid == (lo + hi) \div 2
             left == checksumLoop(body, lo, mid, cs)
         IN  IF left >= 0 THEN checksumLoop(body, mid + 1, hi, left) ELSE left

\* checksum with an 8-bit accumulator
checksum8(body) == checksumLoop(body, 1, Len(body), 0) % 256

\* checksum that adds the first byte twice
checksumFirstTwice(body) ==
    IF Len(body) = 0 THEN 0
    ELSE (checksumLoop(body, 1, Len(body), 0) + body[1]) % 65536

checksum(body) == checksumLoop(body, 1, Len(body), 0)

Packet(h, s, d, cc, fc, data) ==
    [Header |-> h, Source |-> s, Destination |-> d,
     ControlCode |-> cc, FunctionCode |-> fc, Data |-> data]

DefaultPacket == Packet(HeaderMagic, 0, 0, 0, 0, <<>>)

\* Bytes refusing a payload of 255 bytes
BytesBelow255(p) ==
    IF Len(p.Data) >= 255
    THEN [body |-> <<>>, err |-> ErrMaxDataSizeExceeded]
    ELSE LET body == <<bytesFromUint16(p.Header)[1], bytesFromUint16(p.Header)[2],
                       bytesFromUint16(p.Source)[1], bytesFromUint16(p.Source)[2],
                       bytesFromUint16(p.Destination)[1],
                       bytesFromUint16(p.Destination)[2],
                       p.ControlCode, p.FunctionCode, Len(p.Data) % 256>>
                      \o p.Data
         IN  [body |-> body \o bytesFromUint16(checksum(body)), err |-> NoErr]

\* Bytes with the checksum of the payload alone
BytesChecksumOfPayload(p) ==
    IF Len(p.Data) > 255
    THEN [body |-> <<>>, err |-> ErrMaxDataSizeExceeded]
    ELSE LET body == <<bytesFromUint16(p.Header)[1], bytesFromUint16(p.Header)[2],
                       bytesFromUint16(p.Source)[1], bytesFromUint16(p.Source)[2],
                       bytesFromUint16(p.Destination)[1],
                       bytesFromUint16(p.Destination)[2],
                       p.ControlCode, p.FunctionCode, Len(p.Data) % 256>>
                      \o p.Data
         IN  [body |-> body \o bytesFromUint16(checksum(p.Data)), err |-> NoErr]

\* Bytes without the limit on the payload
BytesUnlimited(p) ==
    LET body == <<bytesFromUint16(p.Header)[1], bytesFromUint16(p.Header)[2],
                  bytesFromUint16(p.Source)[1], bytesFromUint16(p.Source)[2],
                  bytesFromUint16(p.Destination)[1],
                  bytesFromUint16(p.Destination)[2],
                  p.ControlCode, p.FunctionCode, Len(p.Data) % 256>>
                 \o p.Data
    IN  [body |-> body \o bytesFromUint16(checksum(body)), err |-> NoErr]

Bytes(p) ==
    IF Len(p.Data) > 255
    THEN [body |-> <<>>, err |-> ErrMaxDataSizeExceeded]
    ELSE LET body == <<bytesFromUint16(p.Header)[1], bytesFromUint16(p.Header)[2],
                       bytesFromUint16(p.Source)[1], bytesFromUint16(p.Source)[2],
                       bytesFromUint16(p.Destination)[1],
                       bytesFromUint16(p.Destination)[2],
                       p.ControlCode, p.FunctionCode, Len(p.Data) % 256>>
                      \o p.Data
         IN  [body |-> body \o bytesFromUint16(checksum(body)), err |-> NoErr]

\* res[a:b] of Go (0-based, b exclusive)
Slice(res, a, b) == SubSeq(res, a + 1, b)

\* ParsePacket with the header compared before the checksum
ParsePacketHeaderFirst(res) ==
    IF Len(res) < 11
    THEN [p |-> Nil, err |-> ErrInvalidBody("minimum packet size is 11 bytes")]
    ELSE LET dataLength == res[9] IN
    IF Len(res) # dataLength + 11
    THEN [p |-> Nil, err |-> ErrInvalidBody("packet specifies length")]
    ELSE IF uint16FromBytes(Slice(res, 0, 2)) # HeaderMagic
    THEN [p |-> Nil, err |-> ErrInvalidBody("header mismatch")]
    ELSE IF checksum(Slice(res, 0, Len(res) - 2))
              # uint16FromBytes(Slice(res, Len(res) - 2, Len(res)))
    THEN [p |-> Nil, err |-> ErrInvalidBody("checksum mismatch")]
    ELSE [p |-> Ptr(Packet(uint16FromBytes(Slice(res, 0, 2)),
                           uint16FromBytes(Slice(res, 2, 4)),
                           uint16FromBytes(Slice(res, 4, 6)),
                           res[7], res[8], Slice(res, 9, 9 + dataLength))),
          err |-> NoErr]

\* ParsePacket with the checksum compared before the declared length
ParsePacketChecksumFirst(res) ==
    IF Len(res) < 11
    THEN [p |-> Nil, err |-> ErrInvalidBody("minimum packet size is 11 bytes")]
    ELSE LET dataLength == res[9] IN
    IF checksum(Slice(res, 0, Len(res) - 2))
         # uint16FromBytes(Slice(res, Len(res) - 2, Len(res)))
    THEN [p |-> Nil, err |-> ErrInvalidBody("checksum mismatch")]
    ELSE IF Len(res) # dataLength + 11
    THEN [p |-> Nil, err |-> ErrInvalidBody("packet specifies length")]
    ELSE IF uint16FromBytes(Slice(res, 0, 2)) # HeaderMagic
    THEN [p |-> Nil, err |-> ErrInvalidBody("header mismatch")]
    ELSE [p |-> Ptr(Packet(uint16FromBytes(Slice(res, 0, 2)),
                           uint16FromBytes(Slice(res, 2, 4)),
                           uint16FromBytes(Slice(res, 4, 6)),
                           res[7], res[8], Slice(res, 9, 9 + dataLength))),
          err |-> NoErr]

\* ParsePacket without the comparison of the checksum
ParsePacketNoChecksum(res) ==
    IF Len(res) < 11
    THEN [p |-> Nil, err |-> ErrInvalidBody("minimum packet size is 11 bytes")]
    ELSE LET dataLength == res[9] IN
    IF Len(res) # dataLength + 11
    THEN [p |-> Nil, err |-> ErrInvalidBody("packet specifies length")]
    ELSE IF uint16FromBytes(Slice(res, 0, 2)) # HeaderMagic
    THEN [p |-> Nil, err |-> ErrInvalidBody("header mismatch")]
    ELSE [p |-> Ptr(Packet(uint16FromBytes(Slice(res, 0, 2)),
                           uint16FromBytes(Slice(res, 2, 4)),
                           uint16FromBytes(Slice(res, 4, 6)),
                           res[7], res[8], Slice(res, 9, 9 + dataLength))),
          err |-> NoErr]

ParsePacket(res) ==
    IF Len(res) < 11
    THEN [p |-> Nil, err |-> ErrInvalidBody("minimum packet size is 11 bytes")]
    ELSE LET dataLength == res[9] IN
    IF Len(res) # dataLength + 11
    THEN [p |-> Nil, err |-> ErrInvalidBody("packet specifies length")]
    ELSE IF checksum(Slice(res, 0, Len(res) - 2))
              # uint16FromBytes(Slice(res, Len(res) - 2, Len(res)))
    THEN [p |-> Nil, err |-> ErrInvalidBody("checksum mismatch")]
    ELSE IF uint16FromBytes(Slice(res, 0, 2)) # HeaderMagic
    THEN [p |-> Nil, err |-> ErrInvalidBody("header mismatch")]
    ELSE [p |-> Ptr(Packet(uint16FromBytes(Slice(res, 0, 2)),
                           uint16FromBytes(Slice(res, 2, 4)),
                           uint16FromBytes(Slice(res, 4, 6)),
                           res[7], res[8], Slice(res, 9, 9 + dataLength))),
          err |-> NoErr]

(***************************************************************************)
(* protocol.go: the message catalog                                        *)
(***************************************************************************)
\* 0x00
UnregisteredInverterRequest ==
    [DefaultPacket EXCEPT !.ControlCode = ControlCodeRegister,
                          !.FunctionCode = 0]

\* 0x80
ParseUnregisteredInverterResponse(body) ==
    LET r == ParsePacket(body) IN
    IF r.err # NoErr THEN [Serial |-> <<>>, err |-> r.err]
    ELSE IF Deref(r.p).ControlCode # ControlCodeRegister
    THEN [Serial |-> <<>>, err |-> ErrUnexpectedControlCode]
    ELSE IF Deref(r.p).FunctionCode # 128
    THEN [Serial |-> <<>>, err |-> ErrUnexpectedFunctionCode]
    ELSE [Serial |-> Deref(r.p).Data, err |-> NoErr]

\* RegisterInverterRequest with the address byte ahead of the serial
RegisterInverterRequestAddressFirst(serial, address) ==
    [DefaultPacket EXCEPT !.ControlCode = ControlCodeRegister,
                          !.FunctionCode = 1,
                          !.Data = <<address>> \o serial]

\* 0x01
RegisterInverterRequest(serial, address) ==
    [DefaultPacket EXCEPT !.ControlCode = ControlCodeRegister,
                          !.FunctionCode = 1,
                          !.Data = Append(serial, address)]

\* ParseRegisterInverterResponse taking NOACK for ACK
ParseRegisterInverterResponseSwapped(body) ==
    LET r == ParsePacket(body) IN
    IF r.err # NoErr THEN r.err
    ELSE IF Deref(r.p).ControlCode # ControlCodeRegister
    THEN ErrUnexpectedControlCode
    ELSE IF Deref(r.p).FunctionCode # 129 THEN ErrUnexpectedFunctionCode
    ELSE IF Len(Deref(r.p).Data) # 1 THEN ErrInvalidBody("Expected data length 1")
    ELSE IF Deref(r.p).Data[1] = StatusACK THEN ErrNOACK
    ELSE IF Deref(r.p).Data[1] # StatusNOACK
    THEN ErrInvalidBody("expected ACK or NOACK")
    ELSE NoErr

\* ParseRegisterInverterResponse taking only frames addressed to the master
ParseRegisterInverterResponseToMaster(body) ==
    LET r == ParsePacket(body) IN
    IF r.err # NoErr THEN r.err
    ELSE IF Deref(r.p).Destination # 0
    THEN ErrInvalidBody("unexpected destination")
    ELSE IF Deref(r.p).ControlCode # ControlCodeRegister
    THEN ErrUnexpectedControlCode
    ELSE IF Deref(r.p).FunctionCode # 129 THEN ErrUnexpectedFunctionCode
    ELSE IF Len(Deref(r.p).Data) # 1 THEN ErrInvalidBody("Expected data length 1")
    ELSE IF Deref(r.p).Data[1] = StatusNOACK THEN ErrNOACK
    ELSE IF Deref(r.p).Data[1] # StatusACK
    THEN ErrInvalidBody("expected ACK or NOACK")
    ELSE NoErr

\* 0x81
ParseRegisterInverterResponse(body) ==
    LET r == ParsePacket(body) IN
    IF r.err # NoErr THEN r.err
    ELSE IF Deref(r.p).ControlCode # ControlCodeRegister
    THEN ErrUnexpectedControlCode
    ELSE IF Deref(r.p).FunctionCode # 129 THEN ErrUnexpectedFunctionCode
    ELSE IF Len(Deref(r.p).Data) # 1 THEN ErrInvalidBody("Expected data length 1")
    ELSE IF Deref(r.p).Data[1] = StatusNOACK THEN ErrNOACK
    ELSE IF Deref(r.p).Data[1] # StatusACK
    THEN ErrInvalidBody("expected ACK or NOACK")
    ELSE NoErr

\* 0x02
UnregisterInverterRequest(serial, address) ==
    [DefaultPacket EXCEPT !.ControlCode = ControlCodeRegister,
                          !.FunctionCode = 2,
                          !.Data = Append(serial, address)]

\* ParseUnregisterInverterResponse looking at the first payload byte only
ParseUnregisterInverterResponseFirstByte(body) ==
    LET r == ParsePacket(body) IN
    IF r.err # NoErr THEN r.err
    ELSE IF Deref(r.p).ControlCode # ControlCodeRegister
    THEN ErrUnexpectedControlCode
    ELSE IF Deref(r.p).FunctionCode # 130 THEN ErrUnexpectedFunctionCode
    ELSE IF Len(Deref(r.p).Data) < 1 THEN ErrInvalidBody("Expected data length 1")
    ELSE IF Deref(r.p).Data[1] = StatusNOACK THEN ErrNOACK
    ELSE IF Deref(r.p).Data[1] # StatusACK
    THEN ErrInvalidBody("expected ACK or NOACK")
    ELSE NoErr

\* 0x82
ParseUnregisterInverterResponse(body) ==
    LET r == ParsePacket(body) IN
    IF r.err # NoErr THEN r.err
    ELSE IF Deref(r.p).ControlCode # ControlCodeRegister
    THEN ErrUnexpectedControlCode
    ELSE IF Deref(r.p).FunctionCode # 130 THEN ErrUnexpectedFunctionCode
    ELSE IF Len(Deref(r.p).Data) # 1 THEN ErrInvalidBody("Expected data length 1")
    ELSE IF Deref(r.p).Data[1] = StatusNOACK THEN ErrNOACK
    ELSE IF Deref(r.p).Data[1] # StatusACK
    THEN ErrInvalidBody("expected ACK or NOACK")
    ELSE NoErr

\* 0x02
NormalInfoRequest(address) ==
    [DefaultPacket EXCEPT !.Destination = uint16FromBytes(<<0, address>>),
                          !.ControlCode = ControlCodeRead,
                          !.FunctionCode = 2]

\* NormalInfoResponse{}: the zero value
ZeroNormalInfoResponse ==
    [Temperature |-> 0, EnergyToday |-> 0, Vpv1 |-> 0, Vpv2 |-> 0,
     Apv1 |-> 0, Apv2 |-> 0, Iac |-> 0, Vac |-> 0, Frequency |-> 0,
     Power |-> 0, EnergyTotal |-> [hi |-> 0, lo |-> 0],
     TimeTotal |-> [hi |-> 0, lo |-> 0], Mode |-> 0, GridVoltFault |-> 0,
     GridFreqFault |-> 0, DCIFault |-> 0, TemperatureFault |-> 0,
     PV1Fault |-> 0, PV2Fault |-> 0, GFCFault |-> 0,
     ErrMessage |-> [hi |-> 0, lo |-> 0]]

\* NormalInfoResponseFromData reading the payload as a packed struct, the
\* unused word not skipped: EnergyTotal taken from data[20:24]
NormalInfoResponseFromDataPacked(data) ==
    IF Len(data) # 50
    THEN [result |-> ZeroNormalInfoResponse, err |-> ErrInvalidBody("")]
    ELSE [result |->
            [Temperature |-> uint16FromBytes(Slice(data, 0, 2)),
             EnergyToday |-> uint16FromBytes(Slice(data, 2, 4)),
             Vpv1 |-> uint16FromBytes(Slice(data, 4, 6)),
             Vpv2 |-> uint16FromBytes(Slice(data, 6, 8)),
             Apv1 |-> uint16FromBytes(Slice(data, 8, 10)),
             Apv2 |-> uint16FromBytes(Slice(data, 10, 12)),
             Iac |-> uint16FromBytes(Slice(data, 12, 14)),
             Vac |-> uint16FromBytes(Slice(data, 14, 16)),
             Frequency |-> uint16FromBytes(Slice(data, 16, 18)),
             Power |-> uint16FromBytes(Slice(data, 18, 20)),
             EnergyTotal |-> uint32FromBytes(Slice(data, 20, 24)),
             TimeTotal |-> uint32FromBytes(Slice(data, 26, 30)),
             Mode |-> uint16FromBytes(Slice(data, 30, 32)),
             GridVoltFault |-> uint16FromBytes(Slice(data, 32, 34)),
             GridFreqFault |-> uint16FromBytes(Slice(data, 34, 36)),
             DCIFault |-> uint16FromBytes(Slice(data, 36, 38)),
             TemperatureFault |-> uint16FromBytes(Slice(data, 38, 40)),
             PV1Fault |-> uint16FromBytes(Slice(data, 40, 42)),
             PV2Fault |-> uint16FromBytes(Slice(data, 42, 44)),
             GFCFault |-> uint16FromBytes(Slice(data, 44, 46)),
             ErrMessage |-> uint32FromBytes(Slice(data, 46, 50))],
          err |-> NoErr]

NormalInfoResponseFromData(data) ==
    IF Len(data) # 50
    THEN [result |-> ZeroNormalInfoResponse, err |-> ErrInvalidBody("")]
    ELSE [result |->
            [Temperature |-> uint16FromBytes(Slice(data, 0, 2)),
             EnergyToday |-> uint16FromBytes(Slice(data, 2, 4)),
             Vpv1 |-> uint16FromBytes(Slice(data, 4, 6)),
             Vpv2 |-> uint16FromBytes(Slice(data, 6, 8)),
             Apv1 |-> uint16FromBytes(Slice(data, 8, 10)),
             Apv2 |-> uint16FromBytes(Slice(data, 10, 12)),
             Iac |-> uint16FromBytes(Slice(data, 12, 14)),
             Vac |-> uint16FromBytes(Slice(data, 14, 16)),
             Frequency |-> uint16FromBytes(Slice(data, 16, 18)),
             Power |-> uint16FromBytes(Slice(data, 18, 20)),
             EnergyTotal |-> uint32FromBytes(Slice(data, 22, 26)),
             TimeTotal |-> uint32FromBytes(Slice(data, 26, 30)),
             Mode |-> uint16FromBytes(Slice(data, 30, 32)),
             GridVoltFault |-> uint16FromBytes(Slice(data, 32, 34)),
             GridFreqFault |-> uint16FromBytes(Slice(data, 34, 36)),
             DCIFault |-> uint16FromBytes(Slice(data, 36, 38)),
             TemperatureFault |-> uint16FromBytes(Slice(data, 38, 40)),
             PV1Fault |-> uint16FromBytes(Slice(data, 40, 42)),
             PV2Fault |-> uint16FromBytes(Slice(data, 42, 44)),
             GFCFault |-> uint16FromBytes(Slice(data, 44, 46)),
             ErrMessage |-> uint32FromBytes(Slice(data, 46, 50))],
          err |-> NoErr]

\* ParseNormalInfoResponse comparing the function code before the control code
ParseNormalInfoResponseFunctionFirst(body) ==
    LET r == ParsePacket(body) IN
    IF r.err # NoErr THEN [result |-> ZeroNormalInfoResponse, err |-> r.err]
    ELSE IF Deref(r.p).FunctionCode # 130
    THEN [result |-> ZeroNormalInfoResponse, err |-> ErrUnexpectedFunctionCode]
    ELSE IF Deref(r.p).ControlCode # ControlCodeRead
    THEN [result |-> ZeroNormalInfoResponse, err |-> ErrUnexpectedControlCode]
    ELSE NormalInfoResponseFromData(Deref(r.p).Data)

\* 0x82
ParseNormalInfoResponse(body) ==
    LET r == ParsePacket(body) IN
    IF r.err # NoErr THEN [result |-> ZeroNormalInfoResponse, err |-> r.err]
    ELSE IF Deref(r.p).ControlCode # ControlCodeRead
    THEN [result |-> ZeroNormalInfoResponse, err |-> ErrUnexpectedControlCode]
    ELSE IF Deref(r.p).FunctionCode # 130
    THEN [result |-> ZeroNormalInfoResponse, err |-> ErrUnexpectedFunctionCode]
    ELSE NormalInfoResponseFromData(Deref(r.p).Data)

\* InverterInfoRequest with the address in the high byte of the destination
InverterInfoRequestHighByte(address) ==
    [DefaultPacket EXCEPT !.Destination = uint16FromBytes(<<address, 0>>),
                          !.ControlCode = ControlCodeRead,
                          !.FunctionCode = 3]

\* 0x03
InverterInfoRequest(address) ==
    [DefaultPacket EXCEPT !.Destination = uint16FromBytes(<<0, address>>),
                          !.ControlCode = ControlCodeRead,
                          !.FunctionCode = 3]

\* InverterInfoResponse{}: the zero value (a Go string is its bytes)
ZeroInverterInfoResponse ==
    [Phase |-> 0, RatedPower |-> <<>>, FirmwareVersion |-> <<>>,
     ModuleName |-> <<>>, FactoryName |-> <<>>, SerialNumber |-> <<>>,
     RatedBusVoltage |-> <<>>]

\* InverterInfoResponseFromData taking a payload of 67 bytes only
InverterInfoResponseFromDataExact(data) ==
    IF Len(data) # 67
    THEN [result |-> ZeroInverterInfoResponse,
          err |-> ErrInvalidBody("expected length of 67")]
    ELSE [result |->
            [Phase |-> data[10],
             RatedPower |-> Slice(data, 10, 16),
             FirmwareVersion |-> Slice(data, 16, 21),
             ModuleName |-> Slice(data, 21, 35),
             FactoryName |-> Slice(data, 35, 49),
             SerialNumber |-> Slice(data, 49, 63),
             RatedBusVoltage |-> Slice(data, 63, 67)],
          err |-> NoErr]

InverterInfoResponseFromData(data) ==
    IF Len(data) < 67
    THEN [result |-> ZeroInverterInfoResponse,
          err |-> ErrInvalidBody("expected length of 67")]
    ELSE [result |->
            [Phase |-> data[10],
             RatedPower |-> Slice(data, 10, 16),
             FirmwareVersion |-> Slice(data, 16, 21),
             ModuleName |-> Slice(data, 21, 35),
             FactoryName |-> Slice(data, 35, 49),
             SerialNumber |-> Slice(data, 49, 63),
             RatedBusVoltage |-> Slice(data, 63, 67)],
          err |-> NoErr]

\* 0x83
ParseInverterInfoResponse(body) ==
    LET r == ParsePacket(body) IN
    IF r.err # NoErr THEN [result |-> ZeroInverterInfoResponse, err |-> r.err]
    ELSE IF Deref(r.p).ControlCode # ControlCodeRead
    THEN [result |-> ZeroInverterInfoResponse, err |-> ErrUnexpectedControlCode]
    ELSE IF Deref(r.p).FunctionCode # 131
    THEN [result |-> ZeroInverterInfoResponse, err |-> ErrUnexpectedFunctionCode]
    ELSE InverterInfoResponseFromData(Deref(r.p).Data)

(***************************************************************************)
(* protocol.go: NormalizeInfoResponse                                      *)
(***************************************************************************)
\* float64(n) / d: the quotient, kept as numerator and denominator
Ratio(n, d) == [num |-> n, den |-> d]

\* modes[in.Mode]: a missing key of a Go map reads as the zero value ""
modes(m) ==
    CASE m = 0 -> "Wait"
      [] m = 1 -> "Check"
      [] m = 2 -> "Normal"
      [] m = 3 -> "Fault"
      [] m = 4 -> "Permanent Fault"
      [] m = 5 -> "Update"
      [] m = 6 -> "Selftest"
      [] OTHER -> ""

\* the names appended by the 32 tests, in the order of the tests
FaultNames ==
    <<"TzProtectFault", "MainsLostFault", "GridVoltFault", "GridFreqFault",
      "PLLLostFault", "BusVoltFault", "BIT06", "OciFault",
      "Dci_OCP_Fault", "ResidualCurrentFault", "PvVoltFault",
      "Ac10Mins_Voltage_Fault", "IsolationFault", "TemperatureOverFault",
      "FanFault", "bit15",
      "SpiCommsFault", "SciCommsFault", "BIT18", "InputConfigFault",
      "EepromFault", "RelayFault", "SampleConsistenceFault",
      "ResidualCurrent_DeviceFault",
      "BIT24", "BIT25", "BIT26", "BIT27", "BIT28", "DCI_DeviceFault",
      "OtherDeviceFault", "BIT31">>

\* the mask test reading the 16 low bits only
HasMaskLow16(word, k) ==
    k >= 16 /\ (word.lo \div (2 ^ (31 - k))) % 2 = 1

\* in.ErrMessage&(uint32(2147483648)>>k) == uint32(2147483648)>>k: the mask
\* is the single bit 31 - k, which lies in the high half for k < 16
HasMask(word, k) ==
    IF k < 16
    THEN (word.hi \div (2 ^ (15 - k))) % 2 = 1
    ELSE (word.lo \div (2 ^ (31 - k))) % 2 = 1

\* the tests k..31 one after the other, each appending its name to acc
RECURSIVE appendFaults(_, _, _)
appendFaults(word, k, acc) ==
    IF k > 31 THEN acc
    ELSE appendFaults(word, k + 1,
                      IF HasMask(word, k) THEN Append(acc, FaultNames[k + 1])
                      ELSE acc)

\* NormalizeInfoResponse scaling the elapsed hours as it scales the energy
NormalizeInfoResponseHoursScaled(in) ==
    [Temperature |-> in.Temperature,
     EnergyToday |-> Ratio(in.EnergyToday, 10),
     Vpv1 |-> Ratio(in.Vpv1, 10),
     Vpv2 |-> Ratio(in.Vpv2, 10),
     Apv1 |-> Ratio(in.Apv1, 10),
     Apv2 |-> Ratio(in.Apv2, 10),
     Iac |-> Ratio(in.Iac, 10),
     Vac |-> Ratio(in.Vac, 10),
     Frequency |-> Ratio(in.Frequency, 100),
     Power |-> in.Power,
     EnergyTotal |-> Ratio(in.EnergyTotal, 10),
     TimeTotal |-> Ratio(in.TimeTotal, 10),
     Mode |-> modes(in.Mode),
     GridVoltFault |-> Ratio(in.GridVoltFault, 10),
     GridFreqFault |-> Ratio(in.GridFreqFault, 100),
     DCIFault |-> Ratio(in.DCIFault, 1000),
     TemperatureFault |-> Ratio(in.TemperatureFault, 1),
     PV1Fault |-> Ratio(in.PV1Fault, 10),
     PV2Fault |-> Ratio(in.PV2Fault, 10),
     GFCFault |-> Ratio(in.GFCFault, 1000),
     ErrMessage |-> appendFaults(in.ErrMessage, 0, <<>>)]

NormalizeInfoResponse(in) ==
    [Temperature |-> in.Temperature,
     EnergyToday |-> Ratio(in.EnergyToday, 10),
     Vpv1 |-> Ratio(in.Vpv1, 10),
     Vpv2 |-> Ratio(in.Vpv2, 10),
     Apv1 |-> Ratio(in.Apv1, 10),
     Apv2 |-> Ratio(in.Apv2, 10),
     Iac |-> Ratio(in.Iac, 10),
     Vac |-> Ratio(in.Vac, 10),
     Frequency |-> Ratio(in.Frequency, 100),
     Power |-> in.Power,
     EnergyTotal |-> Ratio(in.EnergyTotal, 10),
     TimeTotal |-> in.TimeTotal,
     Mode |-> modes(in.Mode),
     GridVoltFault |-> Ratio(in.GridVoltFault, 10),
     GridFreqFault |-> Ratio(in.GridFreqFault, 100),
     DCIFault |-> Ratio(in.DCIFault, 1000),
     TemperatureFault |-> Ratio(in.TemperatureFault, 1),
     PV1Fault |-> Ratio(in.PV1Fault, 10),
     PV2Fault |-> Ratio(in.PV2Fault, 10),
     GFCFault |-> Ratio(in.GFCFault, 1000),
     ErrMessage |-> appendFaults(in.ErrMessage, 0, <<>>)]

(***************************************************************************)
(* SpecCodec: Packet.Bytes and ParsePacket on bounded inputs               *)
(***************************************************************************)
\* how many times a frame is damaged between Bytes() and ParsePacket
MaxTamper == 2

MaxDataSize == 255

Repeat(b, n) == [i \in 1..n |-> b]

CodecHeaders == {HeaderMagic, 43604}
CodecSources == {0, 258}
CodecDestinations == {0, 65287}
CodecControlCodes == {ControlCodeRegister, ControlCodeRead}
CodecFunctionCodes == {130}
CodecPayloads ==
    {<<>>, <<68>>, <<1, 2, 3>>, <<StatusACK>>,
     Repeat(255, MaxDataSize), Repeat(255, MaxDataSize + 1)}
CodecPackets ==
    {Packet(h, s, d, cc, fc, data) :
        h \in CodecHeaders, s \in CodecSources, d \in CodecDestinations,
        cc \in CodecControlCodes, fc \in CodecFunctionCodes,
        data \in CodecPayloads}

\* the bytes of a frame that wire damage hits: header, a code, the length
\* byte, the first two and the last payload byte, the checksum
TamperAt(body) ==
    {1, 7, 9, 10, 11, Len(body) - 2, Len(body) - 1, Len(body)}
        \cap (1..Len(body))
TamperValues == {0, 1, 255}

ClientIdle ==
    /\ inverter = Nil
    /\ LastResponse = <<>>
    /\ pending = <<>>
    /\ op = [name |-> "new", address |-> 0]
    /\ ret = [err |-> NoErr, val |-> Nil]
    /\ calls = <<>>

CodecIdle ==
    /\ cPacket = DefaultPacket
    /\ cEncoded = [body |-> <<>>, err |-> NoErr]
    /\ cBody = <<>>
    /\ cParsed = [p |-> Nil, err |-> NoErr]
    /\ cStage = "init"
    /\ cTampered = 0

UnitIdle ==
    /\ uCase = [fn |-> "none"]
    /\ uResult = <<>>
    /\ uStage = "init"

\* no command line program runs
CliIdle ==
    /\ flags = [address |-> 0, verbose |-> FALSE, outputJson |-> FALSE]
    /\ exit = [status |-> "none"]

CodecInit ==
    /\ cPacket \in CodecPackets
    /\ cEncoded = [body |-> <<>>, err |-> NoErr]
    /\ cBody = <<>>
    /\ cParsed = [p |-> Nil, err |-> NoErr]
    /\ cStage = "init"
    /\ cTampered = 0
    /\ ClientIdle
    /\ UnitIdle
    /\ CliIdle

\* body, err := p.Bytes()
CEncode ==
    /\ cStage = "init"
    /\ cEncoded' = Bytes(cPacket)
    /\ cBody' = Bytes(cPacket).body
    /\ cStage' = "encoded"
    /\ UNCHANGED <<cPacket, cParsed, cTampered>>
    /\ UNCHANGED clientVars
    /\ UNCHANGED unitVars
    /\ UNCHANGED cliVars

\* the wire changes one byte of the frame
CTamperByte ==
    /\ cStage = "encoded"
    /\ cEncoded.err = NoErr
    /\ cTampered < MaxTamper
    /\ \E i \in TamperAt(cBody), v \in TamperValues :
          /\ cBody[i] # v
          /\ cBody' = [cBody EXCEPT ![i] = v]
    /\ cTampered' = cTampered + 1
    /\ UNCHANGED <<cPacket, cEncoded, cParsed, cStage>>
    /\ UNCHANGED clientVars
    /\ UNCHANGED unitVars
    /\ UNCHANGED cliVars

\* the wire loses the last byte of the frame
CTamperTruncate ==
    /\ cStage = "encoded"
    /\ cEncoded.err = NoErr
    /\ cTampered < MaxTamper
    /\ cBody' = SubSeq(cBody, 1, Len(cBody) - 1)
    /\ cTampered' = cTampered + 1
    /\ UNCHANGED <<cPacket, cEncoded, cParsed, cStage>>
    /\ UNCHANGED clientVars
    /\ UNCHANGED unitVars
    /\ UNCHANGED cliVars

\* parsed, err := ParsePacket(body)
CParse ==
    /\ cStage = "encoded"
    /\ cEncoded.err = NoErr
    /\ cParsed' = ParsePacket(cBody)
    /\ cStage' = "parsed"
    /\ UNCHANGED <<cPacket, cEncoded, cBody, cTampered>>
    /\ UNCHANGED clientVars
    /\ UNCHANGED unitVars
    /\ UNCHANGED cliVars

CodecNext == CEncode \/ CTamperByte \/ CTamperTruncate \/ CParse

SpecCodec == CodecInit /\ [][CodecNext]_vars

(***************************************************************************)
(* client.go: the caller's Inverter, the Connection and the five methods   *)
(***************************************************************************)
\* An Inverter. Serial is a Go slice: its bytes, and in aliasesResp whether
\* it is a window of the array that Client.LastResponse holds (bytes 9 to
\* 9+len of it), which is how FindUnregisteredInverter builds it.
Inverter(serial, address, aliases) ==
    [Serial |-> serial, Address |-> address, aliasesResp |-> aliases]

\* what a method returned: its error, and its pointer result (Nil if none)
Returned(err, val) == [err |-> err, val |-> val]

\* one step of a method, on the transport or in the parser: its bytes, the
\* count the transport reported, and the error it ended with
Call(name, arg, n, err) == [call |-> name, arg |-> arg, n |-> n, err |-> err]

\* ---- the environment: the bus, the device and the caller
TransportErrors == {Err("io", "input/output error"), Err("io", "device closed")}
FlushResults == {NoErr} \cup TransportErrors

\* Conn.Write(req): the count and the error
WriteResults(req) ==
    {[n |-> Len(req), err |-> NoErr],
     [n |-> Len(req) - 1, err |-> NoErr],
     [n |-> 0, err |-> NoErr],
     [n |-> 0, err |-> Err("io", "input/output error")]}

\* serial numbers have 1 to MaxSerialLen bytes
MaxSerialLen == 2
Serials == {[i \in 1..n |-> 64 + i] : n \in 1..MaxSerialLen}
\* the serials a caller puts into an Inverter of its own: those, and one too
\* long for a register request
CallerSerials == Serials \cup {Repeat(65, MaxDataSize)}
RegisterAddresses == {10}
CallerAddresses == {0, 7}

Telemetry50 == [i \in 1..50 |-> i]
Info67 == [i \in 1..67 |-> 64 + (i % 26)]

\* a frame as a device builds it
DeviceFrame(cc, fc, data) == Bytes(Packet(HeaderMagic, 0, 0, cc, fc, data)).body

AckFrame == DeviceFrame(ControlCodeRegister, 129, <<StatusACK>>)

\* what the bus delivers after a request
Replies ==
    {<<>>, <<170, 85>>,
     AckFrame,
     [AckFrame EXCEPT ![Len(AckFrame)] = 0],
     DeviceFrame(ControlCodeRegister, 129, <<StatusNOACK>>),
     DeviceFrame(ControlCodeRegister, 129, <<7>>),
     DeviceFrame(ControlCodeRead, 129, <<StatusACK>>),
     DeviceFrame(ControlCodeRegister, 130, <<StatusACK>>),
     DeviceFrame(ControlCodeRegister, 130, <<StatusNOACK>>),
     DeviceFrame(ControlCodeRead, 130, Telemetry50),
     DeviceFrame(ControlCodeRead, 131, Info67)}
    \cup {DeviceFrame(ControlCodeRegister, 128, serial) : serial \in Serials}

\* io.ReadAll(c.Conn): the bytes read, and the error that ended the read
ReadResults ==
    {[data |-> r, err |-> NoErr] : r \in Replies}
    \cup {[data |-> <<>>, err |-> Err("io", "input/output error")],
          [data |-> AckFrame, err |-> Err("io", "device closed")],
          [data |-> DeviceFrame(ControlCodeRegister, 128, <<65>>),
           err |-> Err("io", "input/output error")]}

\* stale bytes on the bus between two transactions
Noise == {AckFrame}

\* ---- the Connection
\* Flush leaving the unread input in the buffer
FlushedNothing(input, err) == input

\* Conn.Flush(): discards the input not yet read
Flushed(input, err) == IF err = NoErr THEN <<>> ELSE input

\* ---- Client.Send, w being what Conn.Write(req) answered
\* Send without the comparison of the count
SendIgnoringCount(req, w) == w.err

\* Send reporting every failure as an incomplete write
SendHidingError(req, w) ==
    IF w.err # NoErr \/ w.n # Len(req) THEN ErrIncompleteWrite ELSE NoErr

Send(req, w) ==
    IF w.err # NoErr THEN w.err
    ELSE IF w.n # Len(req) THEN ErrIncompleteWrite
    ELSE NoErr

\* ---- Client.Read, rd being what arrives during the dwell and the error
\* that ends io.ReadAll: everything in the input buffer is returned (arrived
\* keeps what came in during the dwell, for the log of the transaction)
\* Read reporting bus silence itself
ReadNoInverter(input, rd) ==
    [response |-> input \o rd.data,
     err |-> IF rd.err = NoErr /\ Len(input \o rd.data) = 0
             THEN ErrNoInverter ELSE rd.err,
     arrived |-> rd.data]

Read(input, rd) ==
    [response |-> input \o rd.data, err |-> rd.err, arrived |-> rd.data]

\* ---- len(resp) == 0 in FindUnregisteredInverter
NoResponseNever(resp) == FALSE

NoResponse(resp) == Len(resp) = 0

\* ---- inverter.Address = address, inverter.Address = 0x00
\* registration that keeps the request's payload as the serial
\* (inverter.Serial = append(inverter.Serial, address))
RegisteredWithPayload(inv, address) ==
    Ptr([Deref(inv) EXCEPT !.Serial = Append(@, address),
                           !.Address = address])

\* inverter.Address = address after the acknowledgement
Registered(inv, address) == Ptr([Deref(inv) EXCEPT !.Address = address])

UnregisteredKeepingAddress(inv) == inv

Unregistered(inv) == Ptr([Deref(inv) EXCEPT !.Address = 0])

\* ---- append(serial, address) in RegisterInverterRequest and
\* UnregisterInverterRequest: a slice with spare capacity is appended to in
\* place. A Serial that is a window of the response array (which always has
\* the two checksum bytes after the window) gets the address byte written
\* right after it, into the array LastResponse holds.
AppendInPlace(last, inv, b) ==
    IF inv.aliasesResp
    THEN [last EXCEPT ![9 + Len(inv.Serial) + 1] = b]
    ELSE last

\* c.LastResponse = response: LastResponse holds a new array, and the
\* caller's Serial is no window of it
Detached(inv) ==
    IF inv = Nil THEN Nil
    ELSE Ptr([Deref(inv) EXCEPT !.aliasesResp = FALSE])

Finish(o, r, cl, inv, last, input) ==
    /\ op' = o
    /\ ret' = r
    /\ calls' = cl
    /\ inverter' = inv
    /\ LastResponse' = last
    /\ pending' = input
    /\ UNCHANGED codecVars
    /\ UNCHANGED unitVars
    /\ UNCHANGED cliVars

\* what a transaction did, step by step: the flush (with the unread input
\* it met), the write of req, the dwell (with the bytes that arrived during
\* it) and the read, the parse of the response
LogFlush(fl) == <<Call("flush", pending, 0, fl)>>
LogWrite(fl, req, w) == Append(LogFlush(fl), Call("write", req, w.n, w.err))
LogRead(fl, req, w, got) ==
    LogWrite(fl, req, w)
        \o <<Call("sleep", got.arrived, 0, NoErr),
             Call("read", got.response, Len(got.response), got.err)>>
LogParse(fl, req, w, got, err) ==
    Append(LogRead(fl, req, w, got), Call("parse", got.response, 0, err))

\* In the five methods a value computed once in the Go code (req, resp, the
\* parser's result) is bound by a quantifier over a one-element set.
FindUnregisteredInverter ==
    LET o == [name |-> "find", address |-> 0] IN
    \E fl \in FlushResults :
    IF fl # NoErr
    THEN Finish(o, Returned(fl, Nil), LogFlush(fl),
                inverter, LastResponse, Flushed(pending, fl))
    ELSE \E enc \in {Bytes(UnregisteredInverterRequest)},
            last \in {LastResponse} :
    IF enc.err # NoErr
    THEN Finish(o, Returned(enc.err, Nil), LogFlush(fl),
                inverter, last, Flushed(pending, fl))
    ELSE \E w \in WriteResults(enc.body) :
    IF Send(enc.body, w) # NoErr
    THEN Finish(o, Returned(Send(enc.body, w), Nil), LogWrite(fl, enc.body, w),
                inverter, last, Flushed(pending, fl))
    ELSE \E rd \in ReadResults :
         \E got \in {Read(Flushed(pending, fl), rd)} :
    IF got.err # NoErr
    THEN Finish(o, Returned(got.err, Nil), LogRead(fl, enc.body, w, got),
                Detached(inverter), got.response, <<>>)
    ELSE IF NoResponse(got.response)
    THEN Finish(o, Returned(ErrNoInverter, Nil), LogRead(fl, enc.body, w, got),
                Detached(inverter), got.response, <<>>)
    ELSE \E r \in {ParseUnregisteredInverterResponse(got.response)} :
    IF r.err # NoErr
    THEN Finish(o, Returned(r.err, Nil),
                LogParse(fl, enc.body, w, got, r.err),
                Detached(inverter), got.response, <<>>)
    ELSE Finish(o, Returned(NoErr, Ptr(Inverter(r.Serial, 0, TRUE))),
                LogParse(fl, enc.body, w, got, r.err),
                Detached(inverter), got.response, <<>>)

RegisterInverter(address) ==
    LET o == [name |-> "register", address |-> address] IN
    IF inverter = Nil
    THEN Finish(o, Returned(ErrNilInverter, Nil), <<>>,
                inverter, LastResponse, pending)
    ELSE \E fl \in FlushResults :
    IF fl # NoErr
    THEN Finish(o, Returned(fl, Nil), LogFlush(fl),
                inverter, LastResponse, Flushed(pending, fl))
    ELSE \E enc \in {Bytes(RegisterInverterRequest(Deref(inverter).Serial, address))},
            last \in {AppendInPlace(LastResponse, Deref(inverter), address)} :
    IF enc.err # NoErr
    THEN Finish(o, Returned(enc.err, Nil), LogFlush(fl),
                inverter, last, Flushed(pending, fl))
    ELSE \E w \in WriteResults(enc.body) :
    IF Send(enc.body, w) # NoErr
    THEN Finish(o, Returned(Send(enc.body, w), Nil), LogWrite(fl, enc.body, w),
                inverter, last, Flushed(pending, fl))
    ELSE \E rd \in ReadResults :
         \E got \in {Read(Flushed(pending, fl), rd)} :
    IF got.err # NoErr
    THEN Finish(o, Returned(got.err, Nil), LogRead(fl, enc.body, w, got),
                Detached(inverter), got.response, <<>>)
    ELSE \E r \in {ParseRegisterInverterResponse(got.response)} :
    IF r # NoErr
    THEN Finish(o, Returned(r, Nil),
                LogParse(fl, enc.body, w, got, r),
                Detached(inverter), got.response, <<>>)
    ELSE Finish(o, Returned(NoErr, Nil),
                LogParse(fl, enc.body, w, got, r),
                Registered(Detached(inverter), address), got.response, <<>>)

UnregisterInverter ==
    LET o == [name |-> "unregister", address |-> 0] IN
    IF inverter = Nil
    THEN Finish(o, Returned(ErrNilInverter, Nil), <<>>,
                inverter, LastResponse, pending)
    ELSE \E fl \in FlushResults :
    IF fl # NoErr
    THEN Finish(o, Returned(fl, Nil), LogFlush(fl),
                inverter, LastResponse, Flushed(pending, fl))
    ELSE \E enc \in {Bytes(UnregisterInverterRequest(Deref(inverter).Serial,
                                                     Deref(inverter).Address))},
            last \in {AppendInPlace(LastResponse, Deref(inverter),
                                     Deref(inverter).Address)} :
    IF enc.err # NoErr
    THEN Finish(o, Returned(enc.err, Nil), LogFlush(fl),
                inverter, last, Flushed(pending, fl))
    ELSE \E w \in WriteResults(enc.body) :
    IF Send(enc.body, w) # NoErr
    THEN Finish(o, Returned(Send(enc.body, w), Nil), LogWrite(fl, enc.body, w),
                inverter, last, Flushed(pending, fl))
    ELSE \E rd \in ReadResults :
         \E got \in {Read(Flushed(pending, fl), rd)} :
    IF got.err # NoErr
    THEN Finish(o, Returned(got.err, Nil), LogRead(fl, enc.body, w, got),
                Detached(inverter), got.response, <<>>)
    ELSE \E r \in {ParseUnregisterInverterResponse(got.response)} :
    IF r # NoErr
    THEN Finish(o, Returned(r, Nil),
                LogParse(fl, enc.body, w, got, r),
                Detached(inverter), got.response, <<>>)
    ELSE Finish(o, Returned(NoErr, Nil),
                LogParse(fl, enc.body, w, got, r),
                Unregistered(Detached(inverter)), got.response, <<>>)

\* ---- the info command of cmd/main.go, which calls GetInfo
\* how the process ends: log.Fatal (status 1), a run-time panic (status 2),
\* or the output of the snapshot (status 0), with the raw response logged
\* before it when --verbose is given
Fatal(err) ==
    [status |-> "fatal", err |-> err, logged |-> <<>>, format |-> "",
     out |-> <<>>]
Panic(why) ==
    [status |-> "panic", err |-> Err("runtime", why), logged |-> <<>>,
     format |-> "", out |-> <<>>]
Printed(nInfo, logged, format) ==
    [status |-> "ok", err |-> NoErr, logged |-> logged, format |-> format,
     out |-> nInfo]

\* info, err := client.GetInfo(inv)
\* nInfo := solax.NormalizeInfoResponse(*info)
\* fatalIfError(err)
\* and the output: *info is evaluated before err is looked at
InfoExit(r, last) ==
    IF r.val = Nil
    THEN Panic("invalid memory address or nil pointer dereference")
    ELSE IF r.err # NoErr THEN Fatal(r.err)
    ELSE Printed(NormalizeInfoResponse(Deref(r.val)),
                 IF flags.verbose THEN <<last>> ELSE <<>>,
                 IF flags.outputJson THEN "json" ELSE "table")

\* GetInfo has returned to Info
InfoReturn(o, r, cl, inv, last, input) ==
    /\ op' = o
    /\ ret' = r
    /\ calls' = cl
    /\ inverter' = inv
    /\ LastResponse' = last
    /\ pending' = input
    /\ exit' = InfoExit(r, last)
    /\ UNCHANGED flags
    /\ UNCHANGED codecVars
    /\ UNCHANGED unitVars

\* the return of GetInfo, to the info command or to any other caller
ReturnTo(caller, o, r, cl, inv, last, input) ==
    IF caller = "info command"
    THEN InfoReturn(o, r, cl, inv, last, input)
    ELSE Finish(o, r, cl, inv, last, input)

\* GetInfo called by caller for the inverter inv
GetInfoOn(inv, caller) ==
    LET o == [name |-> "info", address |-> 0] IN
    IF inv = Nil
    THEN ReturnTo(caller, o, Returned(ErrNilInverter, Nil), <<>>,
                inv, LastResponse, pending)
    ELSE \E fl \in FlushResults :
    IF fl # NoErr
    THEN ReturnTo(caller, o, Returned(fl, Nil), LogFlush(fl),
                inv, LastResponse, Flushed(pending, fl))
    ELSE \E enc \in {Bytes(NormalInfoRequest(Deref(inv).Address))},
            last \in {LastResponse} :
    IF enc.err # NoErr
    THEN ReturnTo(caller, o, Returned(enc.err, Nil), LogFlush(fl),
                inv, last, Flushed(pending, fl))
    ELSE \E w \in WriteResults(enc.body) :
    IF Send(enc.body, w) # NoErr
    THEN ReturnTo(caller, o, Returned(Send(enc.body, w), Nil), LogWrite(fl, enc.body, w),
                inv, last, Flushed(pending, fl))
    ELSE \E rd \in ReadResults :
         \E got \in {Read(Flushed(pending, fl), rd)} :
    IF got.err # NoErr
    THEN ReturnTo(caller, o, Returned(got.err, Nil), LogRead(fl, enc.body, w, got),
                Detached(inv), got.response, <<>>)
    ELSE \E r \in {ParseNormalInfoResponse(got.response)} :
    IF r.err # NoErr
    THEN ReturnTo(caller, o, Returned(r.err, Nil),
                LogParse(fl, enc.body, w, got, r.err),
                Detached(inv), got.response, <<>>)
    ELSE ReturnTo(caller, o, Returned(NoErr, Ptr(r.result)),
                LogParse(fl, enc.body, w, got, r.err),
                Detached(inv), got.response, <<>>)

GetInfo == GetInfoOn(inverter, "client")

GetInverterInfo ==
    LET o == [name |-> "inverterinfo", address |-> 0] IN
    IF inverter = Nil
    THEN Finish(o, Returned(ErrNilInverter, Nil), <<>>,
                inverter, LastResponse, pending)
    ELSE \E fl \in FlushResults :
    IF fl # NoErr
    THEN Finish(o, Returned(fl, Nil), LogFlush(fl),
                inverter, LastResponse, Flushed(pending, fl))
    ELSE \E enc \in {Bytes(InverterInfoRequest(Deref(inverter).Address))},
            last \in {LastResponse} :
    IF enc.err # NoErr
    THEN Finish(o, Returned(enc.err, Nil), LogFlush(fl),
                inverter, last, Flushed(pending, fl))
    ELSE \E w \in WriteResults(enc.body) :
    IF Send(enc.body, w) # NoErr
    THEN Finish(o, Returned(Send(enc.body, w), Nil), LogWrite(fl, enc.body, w),
                inverter, last, Flushed(pending, fl))
    ELSE \E rd \in ReadResults :
         \E got \in {Read(Flushed(pending, fl), rd)} :
    IF got.err # NoErr
    THEN Finish(o, Returned(got.err, Nil), LogRead(fl, enc.body, w, got),
                Detached(inverter), got.response, <<>>)
    ELSE \E r \in {ParseInverterInfoResponse(got.response)} :
    IF r.err # NoErr
    THEN Finish(o, Returned(r.err, Nil),
                LogParse(fl, enc.body, w, got, r.err),
                Detached(inverter), got.response, <<>>)
    ELSE Finish(o, Returned(NoErr, Ptr(r.result)),
                LogParse(fl, enc.body, w, got, r.err),
                Detached(inverter), got.response, <<>>)

\* ---- the caller and the bus
\* inv := &solax.Inverter{Serial: serial, Address: byte(address)}
NewInverter(serial, address) ==
    Finish([name |-> "caller", address |-> 0], Returned(NoErr, Nil), <<>>,
           Ptr(Inverter(serial, address, FALSE)), LastResponse, pending)

\* the caller keeps the inverter FindUnregisteredInverter returned
KeepFound ==
    /\ op.name = "find"
    /\ ret.val # Nil
    /\ Finish([name |-> "caller", address |-> 0], Returned(NoErr, Nil), <<>>,
              ret.val, LastResponse, pending)

\* bytes arrive on the bus while no transaction runs
BusNoise ==
    /\ pending = <<>>
    /\ \E n \in Noise :
          Finish([name |-> "bus", address |-> 0], Returned(NoErr, Nil), <<>>,
                 inverter, LastResponse, n)

Init == ClientIdle /\ CodecIdle /\ UnitIdle /\ CliIdle

Next ==
    \/ FindUnregisteredInverter
    \/ \E address \in RegisterAddresses : RegisterInverter(address)
    \/ UnregisterInverter
    \/ GetInfo
    \/ GetInverterInfo
    \/ \E serial \in CallerSerials, address \in CallerAddresses :
          NewInverter(serial, address)
    \/ KeepFound
    \/ BusNoise

Spec == Init /\ [][Next]_vars

(***************************************************************************)
(* SpecUnit: the pure functions of protocol.go on bounded inputs           *)
(***************************************************************************)
\* ---- inputs of checksum: every sequence of at most MaxSumLen bytes drawn
\* from SumBytes, and the inputs of TestChecksum
MaxSumLen == 3
SumBytes == {0, 1, 2, 255}
ChecksumInputs ==
    UNION {[1..n -> SumBytes] : n \in 0..MaxSumLen}
    \cup {<<1, 2, 3, 4, 5, 6>>, <<0, 0, 255, 1>>,
          Repeat(255, 257), Append(Repeat(255, 257), 2)}

\* ---- inputs of the request builders
Operations == {"find", "register", "unregister", "info", "inverterinfo"}
RequestInputs ==
    {[fn |-> "request", op |-> o, serial |-> s, address |-> a] :
        o \in Operations, s \in Serials, a \in 0..255}

\* ---- inputs of the response parsers: frames with every pair of codes and
\* payloads of every kind, and frames damaged in each of the four ways
UnitControlCodes == {ControlCodeRegister, ControlCodeRead, 0}
UnitFunctionCodes == {0, 1, 2, 3, 128, 129, 130, 131, 132}
UnitPayloads ==
    {<<>>, <<StatusACK>>, <<StatusNOACK>>, <<0>>, <<7>>, <<255>>,
     <<StatusACK, StatusACK>>, <<StatusACK, StatusNOACK>>,
     <<StatusNOACK, StatusACK>>, <<65, 66>>,
     Telemetry50, SubSeq(Telemetry50, 1, 49), Append(Telemetry50, 0),
     Info67, SubSeq(Info67, 1, 66), Append(Info67, 0)}
DamagedPayloads == {<<StatusACK>>, Telemetry50, Info67, <<65, 66>>}

WellFormedFrames ==
    {DeviceFrame(cc, fc, data) :
        cc \in UnitControlCodes, fc \in UnitFunctionCodes,
        data \in UnitPayloads}
DamagedFrames ==
    UNION {LET f == DeviceFrame(cc, fc, data) IN
           {SubSeq(f, 1, 10),
            [f EXCEPT ![9] = (f[9] + 1) % 256],
            [f EXCEPT ![Len(f)] = (f[Len(f)] + 1) % 256],
            Bytes(Packet(43604, 0, 0, cc, fc, data)).body} :
              cc \in UnitControlCodes, fc \in UnitFunctionCodes,
              data \in DamagedPayloads}
\* responses that carry a source and a destination address
AddressedFrames ==
    {Bytes(Packet(HeaderMagic, s, d, cc, fc, data)).body :
        s \in {0, 258}, d \in {0, 7, 65287},
        cc \in {ControlCodeRegister, ControlCodeRead},
        fc \in {128, 129, 130, 131},
        data \in {<<StatusACK>>, <<StatusNOACK>>, <<65, 66>>,
                  Telemetry50, Info67}}
ParseInputs ==
    {[fn |-> "parse", op |-> o, body |-> f] :
        o \in Operations,
        f \in WellFormedFrames \cup DamagedFrames \cup AddressedFrames}

\* ---- inputs of NormalizeInfoResponse
UnitHalves == {0, 1, 8721, 32768, 34884, 65535}
UnitModes == {0, 1, 2, 3, 4, 5, 6, 7, 65535}
UnitTelemetry ==
    {ZeroNormalInfoResponse,
     NormalInfoResponseFromData(Telemetry50).result}
NormalizeInputs ==
    {[fn |-> "normalize",
      in |-> [t EXCEPT !.Mode = m, !.ErrMessage = [hi |-> h, lo |-> l]]] :
        t \in UnitTelemetry, m \in UnitModes,
        h \in UnitHalves, l \in UnitHalves}

\* ---- inputs of NormalInfoResponseFromData: a base payload (the sample, or
\* 50 zero bytes) and a payload that differs from it in at most one byte, or
\* in the two unused bytes
ExtractBases == {Telemetry50, Repeat(0, 50)}
ExtractBytes == {0, 128, 255}
ExtractInputs ==
    UNION {{[fn |-> "extract", base |-> b, data |-> d] :
              d \in {[b EXCEPT ![i] = v] : i \in 1..50, v \in ExtractBytes}
                    \cup {[b EXCEPT ![21] = 255, ![22] = 254]}} :
           b \in ExtractBases}

UnitCases ==
    {[fn |-> "checksum", body |-> b] : b \in ChecksumInputs}
    \cup RequestInputs \cup ParseInputs \cup NormalizeInputs
    \cup ExtractInputs

UnitInit ==
    /\ uCase \in UnitCases
    /\ uResult = <<>>
    /\ uStage = "init"
    /\ ClientIdle
    /\ CodecIdle
    /\ CliIdle

UnitDone(result) ==
    /\ uStage = "init"
    /\ uResult' = result
    /\ uStage' = "done"
    /\ UNCHANGED uCase
    /\ UNCHANGED clientVars
    /\ UNCHANGED codecVars
    /\ UNCHANGED cliVars

\* cs := checksum(body)
UChecksum ==
    /\ uCase.fn = "checksum"
    /\ UnitDone(checksum(uCase.body))

\* the request of an operation, built as the client's method builds it, and
\* its encoding
RequestOf(c) ==
    CASE c.op = "find" -> UnregisteredInverterRequest
      [] c.op = "register" -> RegisterInverterRequest(c.serial, c.address)
      [] c.op = "unregister" -> UnregisterInverterRequest(c.serial, c.address)
      [] c.op = "info" -> NormalInfoRequest(c.address)
      [] c.op = "inverterinfo" -> InverterInfoRequest(c.address)

URequest ==
    /\ uCase.fn = "request"
    /\ UnitDone([p |-> RequestOf(uCase), enc |-> Bytes(RequestOf(uCase))])

\* the response parser of an operation: its error and its result
ParserOf(o, body) ==
    CASE o = "find" ->
            [err |-> ParseUnregisteredInverterResponse(body).err,
             val |-> ParseUnregisteredInverterResponse(body).Serial]
      [] o = "register" ->
            [err |-> ParseRegisterInverterResponse(body), val |-> <<>>]
      [] o = "unregister" ->
            [err |-> ParseUnregisterInverterResponse(body), val |-> <<>>]
      [] o = "info" ->
            [err |-> ParseNormalInfoResponse(body).err,
             val |-> ParseNormalInfoResponse(body).result]
      [] o = "inverterinfo" ->
            [err |-> ParseInverterInfoResponse(body).err,
             val |-> ParseInverterInfoResponse(body).result]

UParse ==
    /\ uCase.fn = "parse"
    /\ UnitDone(ParserOf(uCase.op, uCase.body))

\* out := NormalizeInfoResponse(in)
UNormalize ==
    /\ uCase.fn = "normalize"
    /\ UnitDone(NormalizeInfoResponse(uCase.in))

\* result, err := NormalInfoResponseFromData(data)
UExtract ==
    /\ uCase.fn = "extract"
    /\ UnitDone(NormalInfoResponseFromData(uCase.data))

UnitNext == UChecksum \/ URequest \/ UParse \/ UNormalize \/ UExtract

SpecUnit == UnitInit /\ [][UnitNext]_vars

(***************************************************************************)
(* SpecBytes: the byte codec of bytes.go on every 16-bit value             *)
(***************************************************************************)
QuadBytes == {0, 1, 128, 255}
BytesCases ==
    {[fn |-> "uint16", x |-> x] : x \in 0..65535}
    \cup {[fn |-> "uint32", bytes |-> b] : b \in [1..4 -> QuadBytes]}

BytesInit ==
    /\ uCase \in BytesCases
    /\ uResult = <<>>
    /\ uStage = "init"
    /\ ClientIdle
    /\ CodecIdle
    /\ CliIdle

\* out := bytesFromUint16(in), and uint16FromBytes of out
UBytes16 ==
    /\ uCase.fn = "uint16"
    /\ UnitDone([bytes |-> bytesFromUint16(uCase.x),
                 back |-> uint16FromBytes(bytesFromUint16(uCase.x))])

\* uint32FromBytes(in)
UBytes32 ==
    /\ uCase.fn = "uint32"
    /\ UnitDone(uint32FromBytes(uCase.bytes))

BytesNext == UBytes16 \/ UBytes32

SpecBytes == BytesInit /\ [][BytesNext]_vars


(***************************************************************************)
(* SpecCli: the info command of cmd/main.go, one run of the program        *)
(***************************************************************************)
\* the values of the --address flag, in and out of 0..255
CliAddresses == {-1, 0, 7, 256}

\* solax.NewClient(device): the error of serial.OpenPort
NewClientResults == {NoErr, Err("os", "no such file or directory")}

\* the process ends before GetInfo is called
InfoEnds(how) ==
    /\ exit' = how
    /\ UNCHANGED flags
    /\ UNCHANGED clientVars
    /\ UNCHANGED codecVars
    /\ UNCHANGED unitVars

CliInit ==
    /\ flags \in [address : CliAddresses, verbose : BOOLEAN,
                  outputJson : BOOLEAN]
    /\ exit = [status |-> "none"]
    /\ inverter = Nil
    /\ LastResponse = <<>>
    /\ pending \in {<<>>} \cup Noise
    /\ op = [name |-> "new", address |-> 0]
    /\ ret = [err |-> NoErr, val |-> Nil]
    /\ calls = <<>>
    /\ CodecIdle
    /\ UnitIdle

Info ==
    /\ exit.status = "none"
    /\ IF flags.address < 0 \/ flags.address > 255
       THEN InfoEnds(Fatal(Err("", "Address must be between 1-255")))
       ELSE \E opened \in NewClientResults :
            IF opened # NoErr
            THEN InfoEnds(Fatal(opened))
            ELSE GetInfoOn(Ptr(Inverter(<<>>, flags.address, FALSE)),
                           "info command")

CliNext == Info

SpecCli == CliInit /\ [][CliNext]_vars

(***************************************************************************)
(* Claims about the framer (checked under SpecCodec)                       *)
(***************************************************************************)
\* the four conditions of a frame, stated on its bytes
TooShort(b) == Len(b) < 11
LengthMismatch(b) == b[9] + 11 # Len(b)
BadChecksum(b) ==
    checksum(SubSeq(b, 1, Len(b) - 2)) # b[Len(b) - 1] * 256 + b[Len(b)]
BadHeader(b) == <<b[1], b[2]>> # <<170, 85>>

MsgTooShort == ErrInvalidBody("minimum packet size is 11 bytes")
MsgLength == ErrInvalidBody("packet specifies length")
MsgChecksum == ErrInvalidBody("checksum mismatch")
MsgHeader == ErrInvalidBody("header mismatch")

Untampered == cStage = "parsed" /\ cTampered = 0

\* C1 as stated: every packet with a payload of at most 255 bytes, whatever
\* its header, source, destination and codes, is returned unchanged by
\* ParsePacket(Packet.Bytes()).
C1_RoundTripAnyEnvelope ==
    Untampered =>
        /\ cParsed.err = NoErr
        /\ cParsed.p # Nil
        /\ Deref(cParsed.p) = cPacket

\* C1 as amended: every packet with header 0xAA55 and a payload of at most
\* 255 bytes is returned unchanged by ParsePacket(Packet.Bytes()): payload,
\* header, source, destination, control code and function code are equal.
C1_RoundTrip ==
    (Untampered /\ cPacket.Header = HeaderMagic) =>
        /\ cParsed.err = NoErr
        /\ cParsed.p # Nil
        /\ Deref(cParsed.p).Data = cPacket.Data
        /\ Deref(cParsed.p).Header = cPacket.Header
        /\ Deref(cParsed.p).Source = cPacket.Source
        /\ Deref(cParsed.p).Destination = cPacket.Destination
        /\ Deref(cParsed.p).ControlCode = cPacket.ControlCode
        /\ Deref(cParsed.p).FunctionCode = cPacket.FunctionCode

\* a packet with the largest payload and non-zero addresses made the round trip
C1_Witness ==
    /\ Untampered
    /\ cPacket.Header = HeaderMagic
    /\ Len(cPacket.Data) = MaxDataSize
    /\ cPacket.Source # 0
    /\ cPacket.Destination # 0
    /\ cParsed.err = NoErr

\* C2: ParsePacket reports the first failing check in the order size, declared
\* length, checksum, header; it succeeds only when all four pass, and it
\* returns no packet with an error.
C2_CheckOrder ==
    cStage = "parsed" =>
        LET b == cBody
            e == cParsed.err
        IN  /\ TooShort(b) => e = MsgTooShort
            /\ (~TooShort(b) /\ LengthMismatch(b)) => e = MsgLength
            /\ (~TooShort(b) /\ ~LengthMismatch(b) /\ BadChecksum(b))
                  => e = MsgChecksum
            /\ (~TooShort(b) /\ ~LengthMismatch(b) /\ ~BadChecksum(b)
                  /\ BadHeader(b)) => e = MsgHeader
            /\ (~TooShort(b) /\ ~LengthMismatch(b) /\ ~BadChecksum(b)
                  /\ ~BadHeader(b)) => (e = NoErr /\ cParsed.p # Nil)
            /\ e # NoErr => cParsed.p = Nil

\* a frame with both a wrong checksum and a wrong header was parsed, and the
\* checksum mismatch was reported
C2_Witness ==
    /\ cStage = "parsed"
    /\ ~TooShort(cBody)
    /\ ~LengthMismatch(cBody)
    /\ BadChecksum(cBody)
    /\ BadHeader(cBody)
    /\ cParsed.err = MsgChecksum
    /\ cParsed.p = Nil

\* C3 as stated: the checksum is validated before any other field, the length
\* byte included, is used: a frame of at least 11 bytes with a wrong checksum
\* is rejected for its checksum.
C3_ChecksumBeforeAnyField ==
    (cStage = "parsed" /\ ~TooShort(cBody) /\ BadChecksum(cBody))
        => cParsed.err = MsgChecksum

\* C3 as amended: once the size and the length byte agree, the checksum is
\* validated before the header, the addresses, the codes and the payload are
\* used: a wrong checksum is what is reported, whatever the header is, and a
\* packet is returned only for a frame whose checksum is right.
C3_ChecksumBeforeOtherFields ==
    cStage = "parsed" =>
        /\ (~TooShort(cBody) /\ ~LengthMismatch(cBody) /\ BadChecksum(cBody))
              => (cParsed.err = MsgChecksum /\ cParsed.p = Nil)
        /\ cParsed.p # Nil => ~BadChecksum(cBody)

\* a frame whose control code was damaged on the wire, its length byte and
\* header intact, was rejected for its checksum
C3_Witness ==
    /\ cStage = "parsed"
    /\ ~TooShort(cBody)
    /\ ~LengthMismatch(cBody)
    /\ ~BadHeader(cBody)
    /\ cBody[7] # cPacket.ControlCode
    /\ cParsed.err = MsgChecksum

(***************************************************************************)
(* Claims about the client (checked under Spec)                            *)
(***************************************************************************)
Transactions == {"find", "register", "unregister", "info", "inverterinfo"}
Addressed == Transactions \ {"find"}

\* the caller's Inverter as the caller sees it: nil, or its serial and address
InverterValue(inv) ==
    IF inv = Nil THEN <<>> ELSE <<Deref(inv).Serial, Deref(inv).Address>>

\* a frame that passes the framer's four checks
ValidFrame(b) ==
    /\ ~TooShort(b)
    /\ ~LengthMismatch(b)
    /\ ~BadChecksum(b)
    /\ ~BadHeader(b)

\* a valid frame of the registration group with one payload byte
StatusFrame(b, fc, status) ==
    /\ ValidFrame(b)
    /\ b[7] = 16
    /\ b[8] = fc
    /\ Len(b) = 12
    /\ b[10] = status

\* the transaction read from the transport without a transport error
ReadDone(cl) == Len(cl) >= 4 /\ cl[4].err = NoErr

\* C4: RegisterInverter whose response is the valid frame (0x10, 0x81) with
\* payload ACK 0x06 succeeds and sets inverter.Address to the requested
\* address; with payload NACK 0x15 it fails with the "got NOACK" error and
\* inverter.Address keeps its value.
C4_RegisterAckNack ==
    [][(op'.name = "register" /\ ReadDone(calls')) =>
          /\ StatusFrame(calls'[4].arg, 129, 6) =>
                /\ ret'.err = NoErr
                /\ inverter' # Nil
                /\ Deref(inverter').Address = op'.address
          /\ StatusFrame(calls'[4].arg, 129, 21) =>
                /\ ret'.err = ErrNOACK
                /\ inverter' # Nil
                /\ Deref(inverter').Address = Deref(inverter).Address]_vars

\* a registration was acknowledged and the inverter has the requested address
C4_Witness ==
    /\ op.name = "register"
    /\ ReadDone(calls)
    /\ StatusFrame(calls[4].arg, 129, 6)
    /\ ret.err = NoErr
    /\ Deref(inverter).Address = 10

\* C5: the inverter FindUnregisteredInverter returns has address 0; after a
\* successful RegisterInverter(inv, a) the address is a; after a successful
\* UnregisterInverter it is 0; a transaction that returns an error leaves the
\* caller's inverter address as it was.
C5_AddressLifecycle ==
    [][/\ (op'.name = "find" /\ ret'.val # Nil) => Deref(ret'.val).Address = 0
       /\ (op'.name = "register" /\ ret'.err = NoErr) =>
             Deref(inverter').Address = op'.address
       /\ (op'.name = "unregister" /\ ret'.err = NoErr) =>
             Deref(inverter').Address = 0
       /\ (op'.name \in Transactions /\ ret'.err # NoErr) =>
             InverterValue(inverter') = InverterValue(inverter)]_vars

\* an inverter with a bus address was deregistered and is back at address 0
C5_Witness ==
    /\ op.name = "unregister"
    /\ ret.err = NoErr
    /\ calls[2].arg[Len(calls[2].arg) - 2] # 0
    /\ Deref(inverter).Address = 0

\* C6: a transaction's steps are a prefix of flush, write, dwell, read, parse
\* (this order, each at most once); every step before the last one succeeded,
\* the write having taken the whole request, a valid frame; a transaction
\* that returns success did all five.
StepNames == <<"flush", "write", "sleep", "read", "parse">>
StepSucceeded(c) ==
    /\ c.err = NoErr
    /\ c.call = "write" => (c.n = Len(c.arg) /\ ValidFrame(c.arg))
C6_StepOrder ==
    op.name \in Transactions =>
        /\ Len(calls) <= 5
        /\ \A i \in 1..Len(calls) : calls[i].call = StepNames[i]
        /\ \A i \in 1..(Len(calls) - 1) : StepSucceeded(calls[i])
        /\ ret.err = NoErr => Len(calls) = 5
        /\ (Len(calls) > 0 /\ ~StepSucceeded(calls[Len(calls)])) =>
              ret.err # NoErr

\* a telemetry query went through all five steps
C6_Witness ==
    /\ op.name = "info"
    /\ Len(calls) = 5
    /\ ret.err = NoErr

\* C7: a discovery whose read returns no bytes and no error fails with
\* ErrNoInverter, and the parser is not run.
C7_DiscoverySilence ==
    (op.name = "find" /\ ReadDone(calls) /\ calls[4].arg = <<>>) =>
        /\ ret.err = ErrNoInverter
        /\ ret.val = Nil
        /\ Len(calls) = 4

\* a discovery met a silent bus
C7_Witness ==
    /\ op.name = "find"
    /\ ReadDone(calls)
    /\ calls[4].arg = <<>>
    /\ ret.err = ErrNoInverter

\* C8: an addressed operation whose read yields no bytes returns an error
\* that is not ErrNoInverter, and the caller's inverter is unchanged.
C8_AddressedSilence ==
    [][(op'.name \in Addressed /\ Len(calls') >= 4 /\ calls'[4].arg = <<>>) =>
          /\ ret'.err # NoErr
          /\ ret'.err # ErrNoInverter
          /\ ret'.val = Nil
          /\ InverterValue(inverter') = InverterValue(inverter)]_vars

\* a registration met a silent bus and failed in the framer
C8_Witness ==
    /\ op.name = "register"
    /\ ReadDone(calls)
    /\ calls[4].arg = <<>>
    /\ ret.err = MsgTooShort

\* the write of the transaction was short: fewer bytes than the request,
\* and no error
ShortWrite(cl) == Len(cl) >= 2 /\ cl[2].err = NoErr /\ cl[2].n # Len(cl[2].arg)

\* C9: a short write makes the transaction fail with ErrIncompleteWrite, no
\* dwell and no read follow, and the inverter and LastResponse are unchanged.
C9_ShortWrite ==
    [][(op'.name \in Transactions /\ ShortWrite(calls')) =>
          /\ ret'.err = ErrIncompleteWrite
          /\ Len(calls') = 2
          /\ InverterValue(inverter') = InverterValue(inverter)
          /\ LastResponse' = LastResponse]_vars

\* C10: when the transport's flush, write or read fails with an error, the
\* operation returns that very error and nothing, and the failing step is
\* the transaction's last.
C10_TransportErrors ==
    op.name \in Transactions =>
        \A i \in 1..Len(calls) :
            (calls[i].call \in {"flush", "write", "read"} /\ calls[i].err # NoErr)
                => /\ ret.err = calls[i].err
                   /\ ret.val = Nil
                   /\ i = Len(calls)

\* a discovery's read failed having delivered no bytes, and the transport's
\* error came back
C10_Witness ==
    /\ op.name = "find"
    /\ Len(calls) = 4
    /\ calls[4].arg = <<>>
    /\ calls[4].err \in TransportErrors
    /\ ret.err = calls[4].err

(***************************************************************************)
(* Claims about the message catalog, the checksum and the normalizer       *)
(* (checked under SpecUnit and SpecCodec)                                  *)
(***************************************************************************)
\* the parser of operation o has run on uCase.body
Parsed(o) == uStage = "done" /\ uCase.fn = "parse" /\ uCase.op = o

\* the payload of a frame, read off its bytes
FramePayload(b) == SubSeq(b, 10, Len(b) - 2)

\* the response pair of each operation, as the table of the catalog has it
ResponseControl(o) == IF o \in {"find", "register", "unregister"} THEN 16 ELSE 17
ResponseFunction(o) ==
    CASE o = "find" -> 128
      [] o = "register" -> 129
      [] o = "unregister" -> 130
      [] o = "info" -> 130
      [] o = "inverterinfo" -> 131

\* a valid frame carrying the response pair of operation o
ResponseFrame(b, o) ==
    /\ ValidFrame(b)
    /\ b[7] = ResponseControl(o)
    /\ b[8] = ResponseFunction(o)

\* C11: the parsers of the status-only responses (register 0x81, deregister
\* 0x82) succeed if and only if the payload is exactly the byte ACK 0x06;
\* the payload [0x15] yields the "got NOACK" error, which is not the
\* malformed-status error; any other single byte yields the malformed-status
\* error; a payload of any other length, one starting with 0x06 included,
\* yields an error.
C11_StatusPayload ==
    \A o \in {"register", "unregister"} :
        (Parsed(o) /\ ResponseFrame(uCase.body, o)) =>
            LET data == FramePayload(uCase.body)
                e == uResult.err
            IN  /\ (e = NoErr) <=> (data = <<6>>)
                /\ data = <<21>> =>
                      (e = ErrNOACK /\ e.is # "ErrInvalidBody")
                /\ (Len(data) = 1 /\ data[1] \notin {6, 21}) =>
                      e = ErrInvalidBody("expected ACK or NOACK")
                /\ Len(data) # 1 => e = ErrInvalidBody("Expected data length 1")

\* the deregister parser rejected a two-byte payload that starts with ACK
C11_Witness ==
    /\ Parsed("unregister")
    /\ ResponseFrame(uCase.body, "unregister")
    /\ FramePayload(uCase.body) = <<6, 21>>
    /\ uResult.err = ErrInvalidBody("Expected data length 1")

\* C12: every response parser validates the frame, then the control code,
\* then the function code, then the payload: a frame error is reported
\* whatever the codes are, a valid frame with a wrong control code reports
\* ErrUnexpectedControlCode also when its function code is wrong, and a valid
\* frame with the right control code and a wrong function code reports
\* ErrUnexpectedFunctionCode whatever its payload is.
C12_ParserOrder ==
    \A o \in Operations :
        Parsed(o) =>
            LET b == uCase.body
                e == uResult.err
            IN  /\ ~ValidFrame(b) =>
                      e \in {MsgTooShort, MsgLength, MsgChecksum, MsgHeader}
                /\ (ValidFrame(b) /\ b[7] # ResponseControl(o)) =>
                      e = ErrUnexpectedControlCode
                /\ (ValidFrame(b) /\ b[7] = ResponseControl(o)
                      /\ b[8] # ResponseFunction(o)) =>
                      e = ErrUnexpectedFunctionCode

\* the telemetry parser met a valid frame with a wrong control code, a wrong
\* function code and a payload of the wrong length, and reported the control
\* code
C12_Witness ==
    /\ Parsed("info")
    /\ ValidFrame(uCase.body)
    /\ uCase.body[7] # 17
    /\ uCase.body[8] # 130
    /\ Len(FramePayload(uCase.body)) # 50
    /\ uResult.err = ErrUnexpectedControlCode

\* the builder of operation o has run
Built(o) == uStage = "done" /\ uCase.fn = "request" /\ uCase.op = o

\* the request pair of each operation, as the table of the catalog has it
RequestFunction(o) ==
    CASE o = "find" -> 0
      [] o = "register" -> 1
      [] o = "unregister" -> 2
      [] o = "info" -> 2
      [] o = "inverterinfo" -> 3

\* the payload the table gives the request of operation o
RequestPayload(c) ==
    IF c.op \in {"register", "unregister"}
    THEN c.serial \o <<c.address>>
    ELSE <<>>

\* a payload the parser of operation o takes
Canonical(o, data) ==
    CASE o = "find" -> TRUE
      [] o \in {"register", "unregister"} -> data = <<6>>
      [] o = "info" -> Len(data) = 50
      [] o = "inverterinfo" -> Len(data) >= 67

C14_AddressTargeting ==
    \A o \in Operations :
        Built(o) =>
            /\ uResult.p.Destination =
                  (IF o \in {"info", "inverterinfo"} THEN uCase.address ELSE 0)
            /\ SubSeq(uResult.enc.body, 5, 6) =
                  (IF o \in {"info", "inverterinfo"}
                   THEN <<0, uCase.address>> ELSE <<0, 0>>)

\* the device-info request for address 255 was built
C14_Witness ==
    /\ Built("inverterinfo")
    /\ uCase.address = 255
    /\ SubSeq(uResult.enc.body, 5, 6) = <<0, 255>>

\* Bytes() has run on cPacket
Encoded == cStage # "init"

\* C15: Packet.Bytes fails with ErrMaxDataSizeExceeded and returns no bytes
\* if and only if the payload is longer than 255 bytes; for a payload of 0 to
\* 255 bytes it succeeds.
C15_PayloadLimit ==
    Encoded =>
        /\ (Len(cPacket.Data) > 255) <=>
              (cEncoded.err = ErrMaxDataSizeExceeded /\ cEncoded.body = <<>>)
        /\ (Len(cPacket.Data) <= 255) <=> (cEncoded.err = NoErr)

\* a payload of 256 bytes was refused
C15_Witness ==
    /\ Encoded
    /\ Len(cPacket.Data) = 256
    /\ cEncoded.err = ErrMaxDataSizeExceeded
    /\ cEncoded.body = <<>>

\* C16: every successfully encoded frame has 11 + len(payload) bytes, laid
\* out as header (2, big-endian), source (2), destination (2), control code,
\* function code, a length byte equal to len(payload), the payload, and the
\* checksum (2, big-endian) of all the bytes that precede it.
C16_FrameLayout ==
    (Encoded /\ cEncoded.err = NoErr) =>
        LET b == cEncoded.body
            n == Len(cPacket.Data)
        IN  /\ Len(b) = 11 + n
            /\ b[1] * 256 + b[2] = cPacket.Header
            /\ b[3] * 256 + b[4] = cPacket.Source
            /\ b[5] * 256 + b[6] = cPacket.Destination
            /\ b[7] = cPacket.ControlCode
            /\ b[8] = cPacket.FunctionCode
            /\ b[9] = n
            /\ SubSeq(b, 10, 9 + n) = cPacket.Data
            /\ b[10 + n] * 256 + b[11 + n] = checksum(SubSeq(b, 1, 9 + n))

\* a packet with the largest payload and non-zero addresses was encoded
C16_Witness ==
    /\ Encoded
    /\ cEncoded.err = NoErr
    /\ Len(cPacket.Data) = 255
    /\ cPacket.Source # 0
    /\ cPacket.Destination # 0
    /\ Len(cEncoded.body) = 266

\* the positions at which the frame on the wire differs from the encoded one
Damage == {i \in 1..Len(cBody) : cBody[i] # cEncoded.body[i]}

\* the frame on the wire is the encoded frame with one payload byte changed
OnePayloadByteChanged ==
    /\ cEncoded.err = NoErr
    /\ Len(cBody) = Len(cEncoded.body)
    /\ \E i \in Damage : Damage = {i} /\ i >= 10 /\ i <= Len(cBody) - 2

\* C19: for every encodable packet with a non-empty payload, the encoded
\* frame with the value of one payload byte changed, all other bytes and the
\* checksum left as they were, is rejected by ParsePacket with a checksum
\* mismatch and never accepted.
C19_PayloadByteChange ==
    (cStage = "parsed" /\ OnePayloadByteChanged) =>
        (cParsed.err = MsgChecksum /\ cParsed.p = Nil)

\* the last byte of a payload of 255 bytes was changed and the frame rejected
C19_Witness ==
    /\ cStage = "parsed"
    /\ OnePayloadByteChanged
    /\ Len(cPacket.Data) = 255
    /\ Damage = {264}
    /\ cParsed.err = MsgChecksum

\* checksum has run on uCase.body
Summed == uStage = "done" /\ uCase.fn = "checksum"

\* the sum of the bytes lo..hi of a sequence, as an integer
RECURSIVE SumOf(_, _, _)
SumOf(s, lo, hi) ==
    IF lo > hi THEN 0
    ELSE IF lo = hi THEN s[lo]
    ELSE SumOf(s, lo, (lo + hi) \div 2) + SumOf(s, (lo + hi) \div 2 + 1, hi)

\* C17: the checksum of a byte sequence is the sum of its bytes modulo 65536:
\* the checksum of 257 bytes of 255 is 0xFFFF, of these followed by a byte 2
\* it is 0x0001, and the checksum of the empty sequence is 0.
C17_SumMod65536 ==
    Summed =>
        /\ uResult = SumOf(uCase.body, 1, Len(uCase.body)) % 65536
        /\ uCase.body = Repeat(255, 257) => uResult = 65535
        /\ uCase.body = Append(Repeat(255, 257), 2) => uResult = 1
        /\ uCase.body = <<>> => uResult = 0

\* the sum of 258 bytes wrapped around to 1
C17_Witness ==
    /\ Summed
    /\ uCase.body = Append(Repeat(255, 257), 2)
    /\ SumOf(uCase.body, 1, 258) = 65537
    /\ uResult = 1

\* the reorderings of a byte sequence: all of them for a short sequence, the
\* reversed sequence for a long one
Reorderings(b) ==
    IF Len(b) <= MaxSumLen
    THEN {[i \in 1..Len(b) |-> b[f[i]]] : f \in Permutations(1..Len(b))}
    ELSE {[i \in 1..Len(b) |-> b[Len(b) + 1 - i]]}

\* C18 as stated: the checksum depends on the order of the input bytes: among
\* the inputs checksum is run on, some input has a reordering whose checksum
\* differs from its own.
C18_OrderSensitive ==
    Summed =>
        \E b \in ChecksumInputs :
            \E t \in Reorderings(b) : checksum(t) # checksum(b)

\* C18 as amended: the checksum does not depend on the order of the input
\* bytes: every reordering of an input has the checksum of the input.
C18_OrderInsensitive ==
    Summed =>
        \A t \in Reorderings(uCase.body) : checksum(t) = uResult

\* an input of three different bytes, which has six orders, was summed
C18_Witness ==
    /\ Summed
    /\ uCase.body = <<2, 255, 1>>
    /\ Cardinality(Reorderings(uCase.body)) = 6
    /\ uResult = 258

\* NormalizeInfoResponse has run on uCase.in
Normalized == uStage = "done" /\ uCase.fn = "normalize"

\* bit b (0 the least significant, 31 the most) of a 32-bit word
BitOf(word, b) ==
    IF b >= 16 THEN (word.hi \div (2 ^ (b - 16))) % 2 ELSE (word.lo \div (2 ^ b)) % 2

SetBits(word) == {b \in 0..31 : BitOf(word, b) = 1}

\* the bit whose test appends a name: the first test is on bit 31
BitOfName(name) == 32 - (CHOOSE k \in 1..32 : FaultNames[k] = name)

\* 0b10001000_01000100_00100010_00010001
TestMask == [hi |-> 34884, lo |-> 8721]

\* C20: NormalizeInfoResponse emits exactly one name per set bit of the
\* 32-bit fault word: the list has as many names as the word has set bits
\* (none for the word 0, eight for 0b10001000_01000100_00100010_00010001,
\* among them TzProtectFault, PLLLostFault and BIT31), no name appears twice,
\* and the names come in the order of their bits, from bit 31 down to bit 0.
C20_FaultList ==
    Normalized =>
        LET w == uCase.in.ErrMessage
            l == uResult.ErrMessage
        IN  /\ Len(l) = Cardinality(SetBits(w))
            /\ \A i, j \in 1..Len(l) : i # j => l[i] # l[j]
            /\ {BitOfName(l[i]) : i \in 1..Len(l)} = SetBits(w)
            /\ \A i, j \in 1..Len(l) :
                  i < j => BitOfName(l[i]) > BitOfName(l[j])
            /\ w = [hi |-> 0, lo |-> 0] => l = <<>>
            /\ w = TestMask =>
                  /\ Len(l) = 8
                  /\ {"TzProtectFault", "PLLLostFault", "BIT31"}
                        \subseteq {l[i] : i \in 1..Len(l)}

\* the fault word of TestNormalizeNormalInfoResponse was decoded
C20_Witness ==
    /\ Normalized
    /\ uCase.in.ErrMessage = TestMask
    /\ uResult.ErrMessage =
          <<"TzProtectFault", "PLLLostFault", "ResidualCurrentFault",
            "TemperatureOverFault", "BIT18", "SampleConsistenceFault",
            "BIT27", "BIT31">>

\* the name the ErrMessage table of the doc comment gives bit k: the table
\* numbers the names 0..31 in the order in which the 32 tests append them
DocumentedName(k) == FaultNames[k + 1]

\* C21: the fault name reported for a set bit k of the fault word (0 the
\* least significant bit, 31 the most significant) is the entry numbered k
\* of the documented ErrMessage table: bit 0 gives TzProtectFault, bit 4
\* PLLLostFault, bit 31 BIT31, and likewise for every other bit.
C21_DocumentedBits ==
    Normalized =>
        {uResult.ErrMessage[i] : i \in 1..Len(uResult.ErrMessage)}
            = {DocumentedName(k) : k \in SetBits(uCase.in.ErrMessage)}

\* the names of the operating modes
ModeNames ==
    {"Wait", "Check", "Normal", "Fault", "Permanent Fault", "Update", "Selftest"}

\* C22: the operating mode 0 is normalized to "Wait", 1 to "Check", 2 to
\* "Normal", 3 to "Fault", 4 to "Permanent Fault", 5 to "Update", 6 to
\* "Selftest", and every code outside 0..6 to a non-empty representation
\* that is none of the seven names.
C22_ModeNames ==
    Normalized =>
        LET m == uCase.in.Mode
            name == uResult.Mode
        IN  /\ m = 0 => name = "Wait"
            /\ m = 1 => name = "Check"
            /\ m = 2 => name = "Normal"
            /\ m = 3 => name = "Fault"
            /\ m = 4 => name = "Permanent Fault"
            /\ m = 5 => name = "Update"
            /\ m = 6 => name = "Selftest"
            /\ m \notin 0..6 => (name # "" /\ name \notin ModeNames)

\* C23: a telemetry response with a valid frame and the right codes is
\* accepted if and only if its payload has exactly 50 bytes; a device-info
\* response is accepted if and only if its payload has at least 67 bytes,
\* and its result is read from the first 67 bytes alone; a rejected response
\* comes with the zero result, never a partly filled one.
C23_PayloadLength ==
    /\ Parsed("info") =>
          /\ ResponseFrame(uCase.body, "info") =>
                ((uResult.err = NoErr)
                    <=> (Len(FramePayload(uCase.body)) = 50))
          /\ uResult.err # NoErr => uResult.val = ZeroNormalInfoResponse
    /\ Parsed("inverterinfo") =>
          /\ ResponseFrame(uCase.body, "inverterinfo") =>
                LET d == FramePayload(uCase.body) IN
                /\ (uResult.err = NoErr) <=> (Len(d) >= 67)
                /\ uResult.err = NoErr =>
                      uResult.val =
                         [Phase |-> d[10],
                          RatedPower |-> SubSeq(d, 11, 16),
                          FirmwareVersion |-> SubSeq(d, 17, 21),
                          ModuleName |-> SubSeq(d, 22, 35),
                          FactoryName |-> SubSeq(d, 36, 49),
                          SerialNumber |-> SubSeq(d, 50, 63),
                          RatedBusVoltage |-> SubSeq(d, 64, 67)]
          /\ uResult.err # NoErr => uResult.val = ZeroInverterInfoResponse

\* a device-info response of 68 bytes was accepted, its last byte unread
C23_Witness ==
    /\ Parsed("inverterinfo")
    /\ ResponseFrame(uCase.body, "inverterinfo")
    /\ Len(FramePayload(uCase.body)) = 68
    /\ uResult.err = NoErr
    /\ uResult.val.RatedBusVoltage = SubSeq(FramePayload(uCase.body), 64, 67)

\* C24: NormalizeInfoResponse passes the integer fields without a fractional
\* scale through unchanged: the normalized Temperature, Power and TimeTotal
\* equal the raw values, whatever the other fields contain.
C24_PassThrough ==
    Normalized =>
        /\ uResult.Temperature = uCase.in.Temperature
        /\ uResult.Power = uCase.in.Power
        /\ uResult.TimeTotal = uCase.in.TimeTotal

\* a snapshot with non-zero temperature, power and hours, an unknown mode and
\* all fault bits set was normalized
C24_Witness ==
    /\ Normalized
    /\ uCase.in.Temperature = 258
    /\ uCase.in.Power = 4884
    /\ uCase.in.TimeTotal = [hi |-> 6940, lo |-> 7454]
    /\ uCase.in.Mode = 65535
    /\ uCase.in.ErrMessage = [hi |-> 65535, lo |-> 65535]
    /\ uResult.TimeTotal = [hi |-> 6940, lo |-> 7454]

\* C25: bytesFromUint16 yields exactly two bytes, the most significant first
\* (0x0402 gives [0x04, 0x02]), uint16FromBytes(bytesFromUint16(x)) = x for
\* every 16-bit x, and uint32FromBytes reads four bytes big-endian (its value
\* is given by its two 16-bit halves).
C25_ByteCodec ==
    /\ (uStage = "done" /\ uCase.fn = "uint16") =>
          /\ Len(uResult.bytes) = 2
          /\ \A i \in 1..2 : uResult.bytes[i] \in 0..255
          /\ uResult.bytes[1] * 256 + uResult.bytes[2] = uCase.x
          /\ uCase.x = 1026 => uResult.bytes = <<4, 2>>
          /\ uResult.back = uCase.x
    /\ (uStage = "done" /\ uCase.fn = "uint32") =>
          /\ uResult.hi = uCase.bytes[1] * 256 + uCase.bytes[2]
          /\ uResult.lo = uCase.bytes[3] * 256 + uCase.bytes[4]

\* the value of TestBytesFromUint16 was encoded and decoded
C25_Witness ==
    /\ uStage = "done"
    /\ uCase.fn = "uint16"
    /\ uCase.x = 1026
    /\ uResult.bytes = <<4, 2>>
    /\ uResult.back = 1026

(***************************************************************************)
(* Further claims about the client (checked under Spec)                    *)
(***************************************************************************)
\* C26: stale input is never parsed: the flush comes first and the write of
\* the request after it, and the bytes the read returns, which are the bytes
\* handed to the parser and stored in LastResponse, are the bytes that
\* arrived after the flush, whatever was waiting unread when the transaction
\* began.
C26_StaleInput ==
    (op.name \in Transactions /\ Len(calls) >= 4) =>
        /\ calls[1].call = "flush"
        /\ calls[1].err = NoErr
        /\ calls[2].call = "write"
        /\ calls[4].arg = calls[3].arg
        /\ LastResponse = calls[3].arg
        /\ Len(calls) = 5 => calls[5].arg = calls[3].arg

\* a telemetry query began with stale bytes waiting, and its parser got the
\* 50-byte response that arrived during the dwell
C26_Witness ==
    /\ op.name = "info"
    /\ Len(calls) = 5
    /\ calls[1].arg # <<>>
    /\ calls[5].arg = calls[3].arg
    /\ calls[5].arg # calls[1].arg
    /\ ret.err = NoErr

\* C27: after every transaction that reaches the read step LastResponse is
\* exactly the bytes that read returned, also when the read reports an error
\* or the parse fails; a transaction that fails before the read (nil
\* inverter, flush error, encode error, write error or short write) leaves
\* LastResponse as it was.
C27_LastResponse ==
    [][op'.name \in Transactions =>
          IF Len(calls') >= 4
          THEN LastResponse' = calls'[4].arg
          ELSE LastResponse' = LastResponse]_vars

\* C28: RegisterInverter and UnregisterInverter with a serial of 255 or more
\* bytes, once the flush is done, fail with ErrMaxDataSizeExceeded: nothing
\* is written to the transport, no read happens, and the inverter's address
\* is unchanged.
C28_SerialTooLong ==
    [][(/\ op'.name \in {"register", "unregister"}
        /\ inverter # Nil
        /\ Len(Deref(inverter).Serial) >= 255
        /\ calls' # <<>>
        /\ calls'[1].err = NoErr) =>
          /\ ret'.err = ErrMaxDataSizeExceeded
          /\ Len(calls') = 1
          /\ calls'[1].call = "flush"
          /\ InverterValue(inverter') = InverterValue(inverter)]_vars

\* the deregistration of an inverter at address 7 with a serial of 255 bytes
\* was refused after the flush
C28_Witness ==
    /\ op.name = "unregister"
    /\ inverter # Nil
    /\ Len(Deref(inverter).Serial) = 255
    /\ Deref(inverter).Address = 7
    /\ ret.err = ErrMaxDataSizeExceeded
    /\ Len(calls) = 1
    /\ calls[1].err = NoErr

\* a frame with its source and destination set to 0 and its checksum redone
Readdressed(b) ==
    LET z == [i \in 1..(Len(b) - 2) |-> IF i \in 3..6 THEN 0 ELSE b[i]]
    IN  z \o <<checksum(z) \div 256, checksum(z) % 256>>

\* C29: the response parsers never look at the source or the destination of
\* a response: a valid frame with the expected codes and a payload of the
\* operation's kind is accepted whatever its two addresses are, and every
\* valid frame gets the result of the frame that differs from it only in the
\* addresses (and the checksum that covers them).
C29_AddressesIgnored ==
    \A o \in Operations :
        (Parsed(o) /\ ValidFrame(uCase.body)) =>
            /\ (ResponseFrame(uCase.body, o)
                  /\ Canonical(o, FramePayload(uCase.body)))
                  => uResult.err = NoErr
            /\ uResult = ParserOf(o, Readdressed(uCase.body))

\* a register acknowledgement with source 0x0102 and destination 0xFF07 was
\* accepted
C29_Witness ==
    /\ Parsed("register")
    /\ ResponseFrame(uCase.body, "register")
    /\ SubSeq(uCase.body, 3, 6) = <<1, 2, 255, 7>>
    /\ FramePayload(uCase.body) = <<6>>
    /\ uResult.err = NoErr


\* C30: no operation changes more of the caller's Inverter than its lifecycle
\* step. Whatever the outcome of a transaction, the caller's Inverter is
\* still there with the serial it had before; GetInfo and GetInverterInfo
\* leave its address alone as well; and RegisterInverter, UnregisterInverter,
\* GetInfo and GetInverterInfo called with a nil inverter return the error
\* "Inverter must not be nil" without a flush, a write or a read, leaving the
\* input buffer and LastResponse as they were.
C30_FrameEffect ==
    [][(op'.name \in Transactions) =>
          /\ inverter # Nil =>
                /\ inverter' # Nil
                /\ Deref(inverter').Serial = Deref(inverter).Serial
          /\ (inverter # Nil /\ op'.name \in {"info", "inverterinfo"}) =>
                Deref(inverter').Address = Deref(inverter).Address
          /\ (inverter = Nil /\ op'.name \in Addressed) =>
                /\ ret'.err = ErrNilInverter
                /\ calls' = <<>>
                /\ inverter' = Nil
                /\ pending' = pending
                /\ LastResponse' = LastResponse]_vars

\* RegisterInverter went through all its steps and assigned address 10 to
\* the inverter with serial "AB"
C30_Witness ==
    /\ op.name = "register"
    /\ ret.err = NoErr
    /\ Len(calls) = 5
    /\ inverter # Nil
    /\ Deref(inverter).Serial = <<65, 66>>
    /\ Deref(inverter).Address = 10

(***************************************************************************)
(* Claims about the telemetry extraction (checked under SpecUnit)          *)
(***************************************************************************)
Extracted == uStage = "done" /\ uCase.fn = "extract"

\* the offset of the first byte of every 16-bit and of every 32-bit field in
\* the 50-byte payload
Offsets16 ==
    [Temperature |-> 0, EnergyToday |-> 2, Vpv1 |-> 4, Vpv2 |-> 6,
     Apv1 |-> 8, Apv2 |-> 10, Iac |-> 12, Vac |-> 14, Frequency |-> 16,
     Power |-> 18, Mode |-> 30, GridVoltFault |-> 32, GridFreqFault |-> 34,
     DCIFault |-> 36, TemperatureFault |-> 38, PV1Fault |-> 40,
     PV2Fault |-> 42, GFCFault |-> 44]
Offsets32 == [EnergyTotal |-> 22, TimeTotal |-> 26, ErrMessage |-> 46]
TelemetryFields == DOMAIN Offsets16 \cup DOMAIN Offsets32

\* the payload bytes (counted from 0) a field is read from
BytesOfField(f) ==
    IF f \in DOMAIN Offsets16
    THEN Offsets16[f]..(Offsets16[f] + 1)
    ELSE Offsets32[f]..(Offsets32[f] + 3)

\* the fields a payload byte is read into
FieldsOfByte(i) == {f \in TelemetryFields : i \in BytesOfField(f)}

\* the value of a field, read big-endian off the payload
BigEndianField(d, f) ==
    IF f \in DOMAIN Offsets16
    THEN d[Offsets16[f] + 1] * 256 + d[Offsets16[f] + 2]
    ELSE [hi |-> d[Offsets32[f] + 1] * 256 + d[Offsets32[f] + 2],
          lo |-> d[Offsets32[f] + 3] * 256 + d[Offsets32[f] + 4]]

\* the payload bytes (counted from 0) in which two payloads differ
ChangedBytes(d, base) == {i \in 0..49 : d[i + 1] # base[i + 1]}

\* C31: NormalInfoResponseFromData reads every field big-endian from its
\* fixed offset of the 50-byte payload; every payload byte but 20 and 21 is
\* read into exactly one field, so that against a base payload the fields
\* that change are exactly the fields of the changed bytes; and payloads that
\* differ only in bytes 20 and 21 give the same snapshot.
C31_FieldOffsets ==
    Extracted =>
        LET d == uCase.data
            r == uResult.result
            b0 == NormalInfoResponseFromData(uCase.base).result
            changed == ChangedBytes(d, uCase.base)
        IN  /\ uResult.err = NoErr
            /\ DOMAIN r = TelemetryFields
            /\ \A f \in TelemetryFields : r[f] = BigEndianField(d, f)
            /\ \A i \in 0..49 :
                  Cardinality(FieldsOfByte(i)) = IF i \in {20, 21} THEN 0 ELSE 1
            /\ {f \in TelemetryFields : r[f] # b0[f]}
                  = UNION {FieldsOfByte(i) : i \in changed}
            /\ changed \subseteq {20, 21} => r = b0

\* a payload that differs from the sample payload in bytes 20 and 21 only
\* was decoded to the sample's snapshot
C31_Witness ==
    /\ Extracted
    /\ ChangedBytes(uCase.data, uCase.base) = {20, 21}
    /\ uResult.err = NoErr
    /\ uResult.result.Power = 19 * 256 + 20
    /\ uResult.result.EnergyTotal = [hi |-> 23 * 256 + 24, lo |-> 25 * 256 + 26]

(***************************************************************************)
(* Claim about the command line program (checked under SpecCli)            *)
(***************************************************************************)
\* C32: the info command uses the telemetry result only after it has looked
\* at the error GetInfo returned: a run in which GetInfo failed ends with
\* that error reported, and never with the nil result dereferenced.
C32_ErrorCheckedFirst ==
    (exit.status # "none" /\ op.name = "info" /\ ret.err # NoErr) =>
        /\ exit.status = "fatal"
        /\ exit.err = ret.err

====
